---- MODULE Spec2Model ----
(***************************************************************************)
(* Undawned: lane-based defense simulation (Game, Lane, Tile, Unit,        *)
(* Minion, Hero).  The Game object is one record; the operators below are  *)
(* the methods of the source, threaded through a context record            *)
(*   cx = [game, rnd, log, held]                                           *)
(* where rnd is the sequence of Math.random() outcomes the handler will    *)
(* draw for kill rewards, log is the list of death side effects the        *)
(* handler has performed so far, and held is the set of unit identities    *)
(* that callers outside the game still reference.                          *)
(*                                                                         *)
(* Units of measure (all quantities are integers):                         *)
(*   time            milliseconds                                          *)
(*   attackCooldown  thirds of a millisecond (1000/1.2 ms = 2500 thirds)   *)
(*   position, range thousandths of a tile                                 *)
(*   attackSpeed     thousandths of an attack per second                   *)
(*   moveSpeed       thousandths of a tile per second                      *)
(*   daen            1/3125 Daen (update credits deltaTime/2000*0.64, that *)
(*                   is deltaTime/3125 Daen, per tick)                     *)
(*   Math.random()   thousandths, 0..999                                   *)
(***************************************************************************)
EXTENDS Integers, Sequences, FiniteSets, TLC

VARIABLES
    game,      \* the Game object with its lanes, tiles and units
    corpse,    \* the hero the harness has just seen removed and still references
    log,       \* the death, onslaught and preparation effects of the last call
    lastCall,  \* the last call made on the game and what it returned
    obs,       \* per wave: heroes spawned, onslaughts fired and wave-clear
               \* bonuses credited since startWave; the tick time elapsed,
               \* the tick time at which the preparation began, and for
               \* each unit in a lane its last attack() call
    ticks,     \* update() calls that ran so far
    calls,     \* calls the player and the harness made so far
    GameEvents \* window.GameEvents, with the callbacks handed to it and how
               \* often each was invoked

gameVars == <<game, corpse, log, lastCall, obs, ticks, calls>>
vars == <<game, corpse, log, lastCall, obs, ticks, calls, GameEvents>>

(***************************************************************************)
(* Bounds of the model.                                                    *)
(***************************************************************************)
\* number of lanes of the grid (the shipped game constructs 7)
LaneCount == 2
\* number of tiles per lane (the shipped game constructs 10)
TileCount == 3
\* number of tiles per lane of a game built with lanes longer than a
\* Dreadchant's conversion range
LongTileCount == 5
\* update() calls explored in one behaviour
MaxTicks == 2
\* update() calls explored in a fight followed from attack to attack
MaxFightTicks == 4
\* heroes alive at once; a spawn timer fires only below it
MaxHeroes == 2
\* minions on the grid at once; placements are explored only below it
MaxMinions == 2

\* heroes spawned in one wave; a spawn timer fires only below it
MaxSpawns == 7
\* spawnWave calls made by the harness
MaxWaveCalls == 2
\* calls made by the player and the harness in one behaviour
MaxCalls == 5
\* heroes spawned, and alive at once, in the 15-hero wave followed to its end
MaxWaveOneSpawns == 46
\* heroes spawned, and alive at once, in a wave followed to its onslaught
MaxOnslaughtSpawns == 73
\* update() calls explored while the game waits for its first wave
MaxWaitTicks == 4
\* callbacks registered with the event system in one behaviour
MaxCallbacks == 3
\* emit calls made on the event system in one behaviour
MaxEmits == 3

\* deltaTime values handed to update(), in ms
DeltaTimes == {5000, 15000}
\* amounts the harness passes to takeDamage
DamageAmounts == {70}
\* Math.random() outcomes, in thousandths, per use
LaneDraws == {0, 600}
TypeDraws == {0, 600, 800}
JitterDraws == {500}
CoinDraws == {0, 600}
\* selectable type identifiers: the registry's keys and one that is not a key
SelectableTypes == {"ashling", "dreadchant", "wraith"}

(***************************************************************************)
(* Scalars and small helpers.                                              *)
(***************************************************************************)
Tiles(n) == 1000 * n
Daen(n) == 3125 * n
Thirds(ms) == 3 * ms

Abs(x) == IF x < 0 THEN -x ELSE x
Min(a, b) == IF a < b THEN a ELSE b
Max(a, b) == IF a > b THEN a ELSE b
\* Math.ceil(a / b) for b > 0
CeilDiv(a, b) == -((-a) \div b)

Null == "null"
NullUnit == [uid |-> 0]
IsNull(u) == u.uid = 0

LaneIndices == 0 .. (LaneCount - 1)
TileIndices == 0 .. (TileCount - 1)

\* Array.prototype.indexOf on a sequence: 0 stands for -1
IndexOf(seq, x) ==
    IF \E i \in 1 .. Len(seq) : seq[i] = x
    THEN CHOOSE i \in 1 .. Len(seq) : seq[i] = x /\ \A j \in 1 .. (i - 1) : seq[j] # x
    ELSE 0

\* Array.prototype.splice(index, 1)
Splice(seq, i) == SubSeq(seq, 1, i - 1) \o SubSeq(seq, i + 1, Len(seq))

(***************************************************************************)
(* EventSystem.  A callback is named by its position in the list of the    *)
(* callbacks handed to the event system; for a callback registered with    *)
(* once, the listener holds the wrapper once builds around it.             *)
(***************************************************************************)
EventTypes == {"daen:updated", "game:initialized"}
\* what a callback does when invoked: it returns, or emits its own event
Behaviours == {"return", "emit"}

\* Map.set and Map.delete on a function whose domain is the keys
MapSet(map, key, value) ==
    [k \in DOMAIN map \cup {key} |-> IF k = key THEN value ELSE map[k]]
MapDelete(map, key) == [k \in DOMAIN map \ {key} |-> map[k]]

\* EventSystem.constructor
NewEventSystem == [listeners |-> [k \in {} |-> <<>>], callbacks |-> <<>>, emits |-> 0]

\* EventSystem.on; the unsubscribe function it returns is Off with the same
\* arguments
On(es, eventType, callback, context) ==
    LET listed == IF eventType \notin DOMAIN es.listeners
                  THEN MapSet(es.listeners, eventType, <<>>)
                  ELSE es.listeners
        listener == [callback |-> callback, context |-> context]
    IN  [es EXCEPT !.listeners = MapSet(listed, eventType, Append(listed[eventType], listener))]

\* EventSystem.off
Off(es, eventType, callback, context) ==
    IF eventType \notin DOMAIN es.listeners
    THEN es
    ELSE LET listeners == es.listeners[eventType]
             index == IndexOf(listeners, [callback |-> callback, context |-> context])
             spliced == IF index # 0 THEN Splice(listeners, index) ELSE listeners
         IN  IF Len(spliced) = 0
             THEN [es EXCEPT !.listeners = MapDelete(@, eventType)]
             ELSE [es EXCEPT !.listeners = MapSet(@, eventType, spliced)]

RECURSIVE ForEach(_, _, _, _)
RECURSIVE Emit(_, _)

\* a listener's callback invoked by emit: the wrapper built by once
\* unsubscribes itself and then calls the callback, any other listener is
\* the callback
Invoke(es, eventType, callback) ==
    LET unsubscribed == IF es.callbacks[callback].once
                        THEN Off(es, eventType, callback, Null)
                        ELSE es
        called == [unsubscribed EXCEPT !.callbacks[callback].invoked = @ + 1]
    IN  IF called.callbacks[callback].does = "emit"
        THEN Emit(called, eventType)
        ELSE called

\* Array.prototype.forEach on the listeners array of an event type, from
\* index k: the length is read once, each index is read from the array as
\* the calls before it left it, and an index past its end is skipped
ForEach(es, eventType, k, len) ==
    IF k > len
    THEN es
    ELSE LET listeners == IF eventType \in DOMAIN es.listeners
                          THEN es.listeners[eventType]
                          ELSE <<>>
         IN  IF k > Len(listeners)
             THEN ForEach(es, eventType, k + 1, len)
             ELSE ForEach(Invoke(es, eventType, listeners[k].callback), eventType, k + 1, len)

\* EventSystem.emit
Emit(es, eventType) ==
    IF eventType \notin DOMAIN es.listeners
    THEN es
    ELSE ForEach(es, eventType, 1, Len(es.listeners[eventType]))

\* EventSystem.once
Once(es, eventType, callback) == On(es, eventType, callback, Null)

\* the callback has a listener under its event type
Listening(es, callback) ==
    /\ es.callbacks[callback].eventType \in DOMAIN es.listeners
    /\ IndexOf(es.listeners[es.callbacks[callback].eventType],
               [callback |-> callback, context |-> Null]) # 0

(***************************************************************************)
(* Unit, Minion and its subclasses.                                        *)
(***************************************************************************)
MinionRegistry == {"ashling", "gravelim", "gnarlroot", "daemonaltar", "dreadchant"}

\* static get cost() of each registered class
Cost(type) ==
    CASE type = "ashling" -> 3
      [] type = "gravelim" -> 5
      [] type = "gnarlroot" -> 4
      [] type = "daemonaltar" -> 8
      [] type = "dreadchant" -> 8

\* the attribute overrides of each minion constructor
MinionStats(type) ==
    CASE type = "ashling" ->
           [health |-> 60, damage |-> 15, attackSpeed |-> 1200, attackRange |-> Tiles(5)]
      [] type = "gravelim" ->
           [health |-> 40, damage |-> 12, attackSpeed |-> 800, attackRange |-> Tiles(7)]
      [] type = "gnarlroot" ->
           [health |-> 200, damage |-> 0, attackSpeed |-> 0, attackRange |-> 0]
      [] type = "daemonaltar" ->
           [health |-> 80, damage |-> 0, attackSpeed |-> 0, attackRange |-> 0]
      [] type = "dreadchant" ->
           [health |-> 80, damage |-> 10, attackSpeed |-> 1000, attackRange |-> Tiles(2)]

\* new MinionClass(laneIndex, tileIndex, game)
NewMinion(type, laneIndex, tileIndex, uid) ==
    [uid |-> uid, type |-> type, lane |-> laneIndex, position |-> Tiles(tileIndex),
     health |-> MinionStats(type).health, maxHealth |-> MinionStats(type).health,
     damage |-> MinionStats(type).damage, attackSpeed |-> MinionStats(type).attackSpeed,
     attackRange |-> MinionStats(type).attackRange, moveSpeed |-> 0,
     attackCooldown |-> 0, pulseTimer |-> 0]

(***************************************************************************)
(* Tile.                                                                   *)
(***************************************************************************)
\* Tile.isEmpty
TileIsEmpty(tile) == IsNull(tile)

\* Tile.placeMinion: [tile, ret]
TilePlaceMinion(tile, minion) ==
    IF ~TileIsEmpty(tile)
    THEN [tile |-> tile, ret |-> FALSE]
    ELSE [tile |-> minion, ret |-> TRUE]

(***************************************************************************)
(* Lane: tiles, minions (identities, in placement order), heroes.          *)
(***************************************************************************)
NewLane(tileCount) ==
    [tileCount |-> tileCount, tiles |-> [t \in 0 .. (tileCount - 1) |-> NullUnit],
     minions |-> <<>>, heroes |-> <<>>]

\* canPlaceAt without the look at the tile: every index in bounds is accepted
CanPlaceAtInBounds(ln, tileIndex) ==
    IF tileIndex < 0 \/ tileIndex >= ln.tileCount
    THEN FALSE
    ELSE TRUE

\* Lane.canPlaceAt
CanPlaceAt(ln, tileIndex) ==
    IF tileIndex < 0 \/ tileIndex >= ln.tileCount
    THEN FALSE
    ELSE TileIsEmpty(ln.tiles[tileIndex])

\* Lane.placeMinion: [lane, ret]
LanePlaceMinion(ln, minion, tileIndex) ==
    IF ~CanPlaceAt(ln, tileIndex)
    THEN [lane |-> ln, ret |-> FALSE]
    ELSE LET placed == TilePlaceMinion(ln.tiles[tileIndex], minion)
         IN  IF placed.ret
             THEN [lane |-> [ln EXCEPT !.tiles[tileIndex] = placed.tile,
                                       !.minions = Append(@, minion.uid)],
                   ret |-> TRUE]
             ELSE [lane |-> ln, ret |-> FALSE]

\* the minion object a member of lane.minions refers to
MinionOf(ln, uid) ==
    ln.tiles[CHOOSE t \in DOMAIN ln.tiles : ln.tiles[t].uid = uid]

\* identities of the units the game references
UidsOfLane(ln) ==
    {ln.tiles[t].uid : t \in DOMAIN ln.tiles} \cup {ln.minions[i] : i \in 1 .. Len(ln.minions)}
        \cup {ln.heroes[i].uid : i \in 1 .. Len(ln.heroes)}

UidsOf(g) == UNION {UidsOfLane(g.lanes[l]) : l \in LaneIndices}

\* a new object is distinct from every object still referenced: the least
\* identity not in use, minions counting from 1 and heroes from 101
FreshUid(cx, base) ==
    LET used == {n \in UidsOf(cx.game) \cup cx.held : n > base /\ n <= base + 100}
    IN  CHOOSE n \in (base + 1) .. (base + Cardinality(used) + 1) :
            /\ n \notin used
            /\ \A m \in (base + 1) .. (n - 1) : m \in used

RECURSIVE SumUpTo(_, _)
SumUpTo(f, n) == IF n < 0 THEN 0 ELSE f[n] + SumUpTo(f, n - 1)

\* heroes alive in all lanes, minions on all tiles
HeroCount(g) == SumUpTo([l \in LaneIndices |-> Len(g.lanes[l].heroes)], LaneCount - 1)
MinionCount(g) ==
    SumUpTo([l \in LaneIndices |->
                Cardinality({t \in DOMAIN g.lanes[l].tiles : ~IsNull(g.lanes[l].tiles[t])})],
            LaneCount - 1)

(***************************************************************************)
(* Game: construction and placement.                                       *)
(***************************************************************************)
\* Game.constructor
NewGame ==
    [daen |-> Daen(10),
     tileCount |-> TileCount,
     lanes |-> [l \in LaneIndices |-> NewLane(TileCount)],
     selectedMinionType |-> Null,
     gameOver |-> FALSE,
     victory |-> "undefined",
     waveNumber |-> 0,
     waveTimer |-> 0,
     waveInterval |-> 30000,
     heroesInWave |-> 0,
     heroesRemaining |-> 0,
     onslaughtTriggered |-> FALSE,
     onslaughtComplete |-> FALSE,
     bossWave |-> FALSE,
     spawnDelay |-> 1000,
     isPaused |-> FALSE,
     isPreparingNextWave |-> FALSE,
     preparationTimer |-> 0,
     spawnTimeouts |-> 0]

\* canPlaceMinion without the comparison of Daen with the cost
CanPlaceMinionUnpaid(g, laneIndex, tileIndex) ==
    IF laneIndex < 0 \/ laneIndex >= LaneCount \/ tileIndex < 0 \/ tileIndex >= g.tileCount
    THEN FALSE
    ELSE IF g.selectedMinionType = Null
    THEN FALSE
    ELSE IF g.selectedMinionType \notin MinionRegistry
    THEN FALSE
    ELSE IsNull(g.lanes[laneIndex].tiles[tileIndex])

\* Game.canPlaceMinion
CanPlaceMinion(g, laneIndex, tileIndex) ==
    IF laneIndex < 0 \/ laneIndex >= LaneCount \/ tileIndex < 0 \/ tileIndex >= g.tileCount
    THEN FALSE
    ELSE IF g.selectedMinionType = Null
    THEN FALSE
    ELSE IF g.selectedMinionType \notin MinionRegistry
            \/ g.daen < Daen(Cost(g.selectedMinionType))
    THEN FALSE
    ELSE IsNull(g.lanes[laneIndex].tiles[tileIndex])

\* placeMinionAt that places the minion and takes no Daen for it
PlaceMinionAtFree(cx, laneIndex, tileIndex) ==
    IF ~CanPlaceMinion(cx.game, laneIndex, tileIndex)
    THEN [cx |-> cx, ret |-> FALSE]
    ELSE LET type == cx.game.selectedMinionType
             minion == NewMinion(type, laneIndex, tileIndex, FreshUid(cx, 0))
             placed == LanePlaceMinion(cx.game.lanes[laneIndex], minion, tileIndex)
         IN  IF placed.ret
             THEN [cx |-> [cx EXCEPT !.game.lanes[laneIndex] = placed.lane], ret |-> TRUE]
             ELSE [cx |-> cx, ret |-> FALSE]

\* Game.placeMinionAt: [cx, ret]
PlaceMinionAt(cx, laneIndex, tileIndex) ==
    IF ~CanPlaceMinion(cx.game, laneIndex, tileIndex)
    THEN [cx |-> cx, ret |-> FALSE]
    ELSE LET type == cx.game.selectedMinionType
             minion == NewMinion(type, laneIndex, tileIndex, FreshUid(cx, 0))
             placed == LanePlaceMinion(cx.game.lanes[laneIndex], minion, tileIndex)
         IN  IF placed.ret
             THEN [cx |-> [cx EXCEPT !.game.lanes[laneIndex] = placed.lane,
                                     !.game.daen = @ - Daen(Cost(type))],
                   ret |-> TRUE]
             ELSE [cx |-> cx, ret |-> FALSE]

(***************************************************************************)
(* Lane removal and the death of units.                                    *)
(***************************************************************************)
\* position of the hero object with this identity in lane.heroes, 0 for -1
HeroIndex(heroes, uid) == IndexOf([i \in 1 .. Len(heroes) |-> heroes[i].uid], uid)

\* onEnemyDeath that credits only strictly inside the conversion range
OnEnemyDeathStrict(cx, minion, hero) ==
    IF Abs(minion.position - hero.position) < Tiles(3)
    THEN [cx EXCEPT !.game.daen = @ + Daen(3),
                    !.log = Append(@, [ev |-> "hook", by |-> minion.uid, hero |-> hero.uid,
                                       credit |-> 3])]
    ELSE [cx EXCEPT !.log = Append(@, [ev |-> "hook", by |-> minion.uid, hero |-> hero.uid,
                                       credit |-> 0])]

\* Dreadchant.onEnemyDeath
OnEnemyDeath(cx, minion, hero) ==
    IF Abs(minion.position - hero.position) <= Tiles(3)
    THEN [cx EXCEPT !.game.daen = @ + Daen(3),
                    !.log = Append(@, [ev |-> "hook", by |-> minion.uid, hero |-> hero.uid,
                                       credit |-> 3])]
    ELSE [cx EXCEPT !.log = Append(@, [ev |-> "hook", by |-> minion.uid, hero |-> hero.uid,
                                       credit |-> 0])]

\* the loop of Lane.removeHero over this.minions, from index i on
RECURSIVE NotifyMinions(_, _, _, _)
NotifyMinions(cx, l, hero, i) ==
    LET ln == cx.game.lanes[l]
    IN  IF i > Len(ln.minions)
        THEN cx
        ELSE LET minion == MinionOf(ln, ln.minions[i])
             IN  IF minion.type = "dreadchant"
                 THEN NotifyMinions(OnEnemyDeath(cx, minion, hero), l, hero, i + 1)
                 ELSE NotifyMinions(cx, l, hero, i + 1)

\* removeHero that runs the hooks, the draw and the splice without looking
\* for the hero in the list first
RemoveHeroUnguarded(cx, l, hero) ==
    LET index == HeroIndex(cx.game.lanes[l].heroes, hero.uid)
        notified == NotifyMinions(cx, l, hero, 1)
        roll == Head(notified.rnd)
        drawn == [notified EXCEPT !.rnd = Tail(@),
                                  !.log = Append(@, [ev |-> "draw", hero |-> hero.uid])]
        rewarded == IF roll < 500
                    THEN [drawn EXCEPT !.game.daen = @ + Daen(1)]
                    ELSE drawn
    IN  [rewarded EXCEPT
            !.game.lanes[l].heroes = IF index = 0 THEN @ ELSE Splice(@, index),
            !.log = Append(@, [ev |-> "splice", hero |-> hero.uid])]

\* Lane.removeHero
RemoveHero(cx, l, hero) ==
    LET index == HeroIndex(cx.game.lanes[l].heroes, hero.uid)
    IN  IF index = 0
        THEN cx
        ELSE LET notified == NotifyMinions(cx, l, hero, 1)
                 roll == Head(notified.rnd)
                 drawn == [notified EXCEPT !.rnd = Tail(@),
                                           !.log = Append(@, [ev |-> "draw", hero |-> hero.uid])]
                 rewarded == IF roll < 500
                             THEN [drawn EXCEPT !.game.daen = @ + Daen(1)]
                             ELSE drawn
             IN  [rewarded EXCEPT
                     !.game.lanes[l].heroes = Splice(@, index),
                     !.obs.attacked = {r \in @ : r.uid # hero.uid},
                     !.log = Append(@, [ev |-> "splice", hero |-> hero.uid])]

\* removeMinion that takes the minion off the list and leaves its tile alone
RemoveMinionFromList(cx, l, minion) ==
    LET ln == cx.game.lanes[l]
        index == IndexOf(ln.minions, minion.uid)
        unlisted == IF index # 0 THEN [ln EXCEPT !.minions = Splice(@, index)] ELSE ln
    IN  [cx EXCEPT !.game.lanes[l] = unlisted,
                   !.log = Append(@, [ev |-> "remove", minion |-> minion.uid])]

\* Lane.removeMinion
RemoveMinion(cx, l, minion) ==
    LET ln == cx.game.lanes[l]
        index == IndexOf(ln.minions, minion.uid)
        unlisted == IF index # 0 THEN [ln EXCEPT !.minions = Splice(@, index)] ELSE ln
        tileIndex == minion.position \div 1000
        cleared == IF tileIndex >= 0 /\ tileIndex < ln.tileCount
                   THEN IF unlisted.tiles[tileIndex].uid = minion.uid
                        THEN [unlisted EXCEPT !.tiles[tileIndex] = NullUnit]
                        ELSE unlisted
                   ELSE unlisted
    IN  [cx EXCEPT !.game.lanes[l] = cleared,
                   !.obs.attacked = {r \in @ : r.uid # minion.uid},
                   !.log = Append(@, [ev |-> "remove", minion |-> minion.uid])]

\* Hero.die
HeroDie(cx, hero) == RemoveHero(cx, hero.lane, hero)

\* a die() that leaves the minion where it is
MinionDieInPlace(cx, minion) == cx

\* Minion.die
MinionDie(cx, minion) == RemoveMinion(cx, minion.lane, minion)

\* the fields Unit.takeDamage writes on the unit itself
Damaged(unit, amount) ==
    [unit EXCEPT !.health = IF @ - amount <= 0 THEN 0 ELSE @ - amount]

\* the same hero object seen through lane.heroes
StoreHero(cx, hero) ==
    LET index == HeroIndex(cx.game.lanes[hero.lane].heroes, hero.uid)
    IN  IF index = 0 THEN cx ELSE [cx EXCEPT !.game.lanes[hero.lane].heroes[index] = hero]

\* the same minion object seen through its tile
StoreMinion(cx, minion) ==
    LET tileIndex == minion.position \div 1000
    IN  IF tileIndex \in DOMAIN cx.game.lanes[minion.lane].tiles
           /\ cx.game.lanes[minion.lane].tiles[tileIndex].uid = minion.uid
        THEN [cx EXCEPT !.game.lanes[minion.lane].tiles[tileIndex] = minion]
        ELSE cx

\* Unit.takeDamage on a hero: [cx, unit, ret]
HeroTakeDamage(cx, hero, amount) ==
    LET unit == Damaged(hero, amount)
        stored == StoreHero(cx, unit)
    IN  IF hero.health - amount <= 0
        THEN [cx |-> HeroDie(stored, unit), unit |-> unit, ret |-> TRUE]
        ELSE [cx |-> stored, unit |-> unit, ret |-> FALSE]

\* Unit.takeDamage on a minion: [cx, unit, ret]
MinionTakeDamage(cx, minion, amount) ==
    LET unit == Damaged(minion, amount)
        stored == StoreMinion(cx, unit)
    IN  IF minion.health - amount <= 0
        THEN [cx |-> MinionDie(stored, unit), unit |-> unit, ret |-> TRUE]
        ELSE [cx |-> stored, unit |-> unit, ret |-> FALSE]

(***************************************************************************)
(* Targeting, attack, movement and the per-tick update of units.           *)
(***************************************************************************)
\* the scan with <= in place of <: of equidistant units the last one wins
RECURSIVE ClosestLast(_, _, _, _, _)
ClosestLast(self, others, i, closest, closestDistance) ==
    IF i > Len(others)
    THEN closest
    ELSE LET distance == Abs(self.position - others[i].position)
         IN  IF distance <= self.attackRange /\ (IsNull(closest) \/ distance <= closestDistance)
             THEN ClosestLast(self, others, i + 1, others[i], distance)
             ELSE ClosestLast(self, others, i + 1, closest, closestDistance)

\* the scan of findTarget over the opposing collection, from index i on;
\* closestDistance is Infinity exactly while closest is null
RECURSIVE Closest(_, _, _, _, _)
Closest(self, others, i, closest, closestDistance) ==
    IF i > Len(others)
    THEN closest
    ELSE LET distance == Abs(self.position - others[i].position)
         IN  IF distance <= self.attackRange /\ (IsNull(closest) \/ distance < closestDistance)
             THEN Closest(self, others, i + 1, others[i], distance)
             ELSE Closest(self, others, i + 1, closest, closestDistance)

\* lane.minions as the objects it refers to
MinionObjects(ln) == [i \in 1 .. Len(ln.minions) |-> MinionOf(ln, ln.minions[i])]

\* Minion.findTarget
MinionFindTarget(minion, ln) == Closest(minion, ln.heroes, 1, NullUnit, 0)

\* Hero.findTarget
HeroFindTarget(hero, ln) == Closest(hero, MinionObjects(ln), 1, NullUnit, 0)

\* Unit.canAttack
CanAttack(self, target) == Abs(self.position - target.position) <= self.attackRange

\* attack without the look at the range
AttackAnyway(cx, self, target) ==
    LET done == IF "baseAttackSpeed" \in DOMAIN target
                THEN HeroTakeDamage(cx, target, self.damage)
                ELSE MinionTakeDamage(cx, target, self.damage)
    IN  [cx |-> done.cx, ret |-> done.ret]

\* Unit.attack: [cx, ret]; the target is a hero or a minion
Attack(cx, self, target) ==
    IF ~CanAttack(self, target)
    THEN [cx |-> cx, ret |-> FALSE]
    ELSE LET done == IF "baseAttackSpeed" \in DOMAIN target
                     THEN HeroTakeDamage(cx, target, self.damage)
                     ELSE MinionTakeDamage(cx, target, self.damage)
         IN  [cx |-> done.cx, ret |-> done.ret]

\* 1000 / attackSpeed, in thirds of a millisecond
AttackInterval(unit) == 3000000 \div unit.attackSpeed

\* Unit.move
Move(cx, unit, deltaTime, direction) ==
    LET distance == (unit.moveSpeed * deltaTime) \div 1000
    IN  [unit EXCEPT !.position =
             Max(0, Min(Tiles(cx.game.tileCount - 1), @ + distance * direction))]

\* the call this.attack(target) of Minion.update and Hero.update, noted with
\* the caller's cooldown and its distance to the target at that moment
Attacking(cx, unit, target) ==
    [cx EXCEPT !.obs.attacked =
        {r \in @ : r.uid # unit.uid}
            \cup {[uid |-> unit.uid, at |-> cx.obs.clock,
                   cooldown |-> unit.attackCooldown,
                   distance |-> Abs(unit.position - target.position),
                   interval |-> AttackInterval(unit)]}]

\* the cooldown decrement at the head of Minion.update and Hero.update
CooledDown(unit, deltaTime) ==
    IF unit.attackCooldown > 0
    THEN [unit EXCEPT !.attackCooldown = @ - Thirds(deltaTime)]
    ELSE unit

\* DaemonAltar.update
AltarUpdate(cx, minion, deltaTime) ==
    LET timer == minion.pulseTimer + deltaTime
    IN  IF timer >= 20000
        THEN StoreMinion([cx EXCEPT !.game.daen = @ + Daen(1)], [minion EXCEPT !.pulseTimer = 0])
        ELSE StoreMinion(cx, [minion EXCEPT !.pulseTimer = timer])

\* Minion.update that attacks whenever it finds a target
MinionUpdateUngated(cx, minion, deltaTime) ==
    IF minion.type = "gnarlroot"
    THEN cx
    ELSE IF minion.type = "daemonaltar"
    THEN AltarUpdate(cx, minion, deltaTime)
    ELSE LET cooled == CooledDown(minion, deltaTime)
             target == MinionFindTarget(cooled, cx.game.lanes[minion.lane])
         IN  IF ~IsNull(target)
             THEN LET noted == Attacking(cx, cooled, target)
                      hit == IF CanAttack(cooled, target)
                             THEN HeroTakeDamage(noted, target, cooled.damage).cx
                             ELSE noted
                  IN  StoreMinion(hit, [cooled EXCEPT !.attackCooldown = AttackInterval(cooled)])
             ELSE StoreMinion(cx, cooled)

\* Minion.update (Gnarlroot and DaemonAltar override it)
MinionUpdate(cx, minion, deltaTime) ==
    IF minion.type = "gnarlroot"
    THEN cx
    ELSE IF minion.type = "daemonaltar"
    THEN AltarUpdate(cx, minion, deltaTime)
    ELSE LET cooled == CooledDown(minion, deltaTime)
             target == MinionFindTarget(cooled, cx.game.lanes[minion.lane])
         IN  IF ~IsNull(target) /\ cooled.attackCooldown <= 0
             THEN LET noted == Attacking(cx, cooled, target)
                      hit == Attack(noted, cooled, target).cx
                  IN  StoreMinion(hit, [cooled EXCEPT !.attackCooldown = AttackInterval(cooled)])
             ELSE StoreMinion(cx, cooled)

\* an Oathblade whose attack speed grows with its health
EnragedByHealth(hero) ==
    IF hero.type = "oathblade"
    THEN [hero EXCEPT !.attackSpeed =
              (hero.baseAttackSpeed * (hero.maxHealth + hero.health)) \div hero.maxHealth]
    ELSE hero

\* the first statement of Oathblade.update
Enraged(hero) ==
    IF hero.type = "oathblade"
    THEN [hero EXCEPT !.attackSpeed =
              (hero.baseAttackSpeed * (2 * hero.maxHealth - hero.health)) \div hero.maxHealth]
    ELSE hero

\* Hero.update that walks whenever it does not attack
HeroUpdateRestless(cx, hero, deltaTime) ==
    LET cooled == CooledDown(Enraged(hero), deltaTime)
        target == HeroFindTarget(cooled, cx.game.lanes[hero.lane])
    IN  IF ~IsNull(target) /\ cooled.attackCooldown <= 0
        THEN LET noted == Attacking(cx, cooled, target)
                 hit == IF CanAttack(cooled, target)
                        THEN MinionTakeDamage(noted, target, cooled.damage).cx
                        ELSE noted
             IN  StoreHero(hit, [cooled EXCEPT !.attackCooldown = AttackInterval(cooled)])
        ELSE StoreHero(cx, Move(cx, cooled, deltaTime, -1))

\* Hero.update (Oathblade.update calls it after recomputing attackSpeed)
HeroUpdate(cx, hero, deltaTime) ==
    LET cooled == CooledDown(Enraged(hero), deltaTime)
        target == HeroFindTarget(cooled, cx.game.lanes[hero.lane])
    IN  IF ~IsNull(target) /\ cooled.attackCooldown <= 0
        THEN LET noted == Attacking(cx, cooled, target)
                 hit == Attack(noted, cooled, target).cx
             IN  StoreHero(hit, [cooled EXCEPT !.attackCooldown = AttackInterval(cooled)])
        ELSE IF IsNull(target)
        THEN StoreHero(cx, Move(cx, cooled, deltaTime, -1))
        ELSE StoreHero(cx, cooled)

\* the loop of Lane.update over this.tiles, from tile t on (Tile.update);
\* it ends past the last tile of the lane
RECURSIVE UpdateTiles(_, _, _, _)
UpdateTiles(cx, l, t, deltaTime) ==
    IF t \notin DOMAIN cx.game.lanes[l].tiles
    THEN cx
    ELSE LET minion == cx.game.lanes[l].tiles[t]
         IN  IF IsNull(minion)
             THEN UpdateTiles(cx, l, t + 1, deltaTime)
             ELSE UpdateTiles(MinionUpdate(cx, minion, deltaTime), l, t + 1, deltaTime)

\* the loop of Lane.update over this.heroes, from index i down to the first;
\* no update in the loop shortens the list, so heroes[i] is always there
RECURSIVE UpdateHeroes(_, _, _, _)
UpdateHeroes(cx, l, i, deltaTime) ==
    IF i < 1 \/ i > Len(cx.game.lanes[l].heroes)
    THEN cx
    ELSE UpdateHeroes(HeroUpdate(cx, cx.game.lanes[l].heroes[i], deltaTime), l, i - 1, deltaTime)

\* Lane.update
LaneUpdate(cx, l, deltaTime) ==
    LET tiled == UpdateTiles(cx, l, 0, deltaTime)
    IN  UpdateHeroes(tiled, l, Len(tiled.game.lanes[l].heroes), deltaTime)

\* the loop of Game.update over this.lanes, from lane l on; it ends past
\* the last lane
RECURSIVE UpdateLanes(_, _, _)
UpdateLanes(cx, l, deltaTime) ==
    IF l \notin DOMAIN cx.game.lanes
    THEN cx
    ELSE UpdateLanes(LaneUpdate(cx, l, deltaTime), l + 1, deltaTime)

(***************************************************************************)
(* Hero and its subclasses; spawning.                                      *)
(***************************************************************************)
\* the attribute overrides of each hero constructor
HeroStats(type) ==
    CASE type = "militiant" ->
           [health |-> 80, damage |-> 10, attackSpeed |-> 1000, attackRange |-> Tiles(1),
            moveSpeed |-> 300]
      [] type = "ashboltscout" ->
           [health |-> 50, damage |-> 8, attackSpeed |-> 1500, attackRange |-> Tiles(3),
            moveSpeed |-> 400]
      [] type = "oathblade" ->
           [health |-> 120, damage |-> 15, attackSpeed |-> 800, attackRange |-> Tiles(1),
            moveSpeed |-> 250]

\* new HeroClass(laneIndex, startTile, game)
NewHero(type, laneIndex, startTile, uid) ==
    [uid |-> uid, type |-> type, lane |-> laneIndex, position |-> Tiles(startTile),
     health |-> HeroStats(type).health, maxHealth |-> HeroStats(type).health,
     damage |-> HeroStats(type).damage, attackSpeed |-> HeroStats(type).attackSpeed,
     baseAttackSpeed |-> HeroStats(type).attackSpeed,
     attackRange |-> HeroStats(type).attackRange, moveSpeed |-> HeroStats(type).moveSpeed,
     attackCooldown |-> 0]

\* the type selection with the lower tier tested first
HeroTypeForLowerFirst(waveNumber, heroTypeRoll) ==
    IF waveNumber >= 5 /\ heroTypeRoll > 500 THEN "ashboltscout"
    ELSE IF waveNumber >= 10 /\ heroTypeRoll > 700 THEN "oathblade"
    ELSE "militiant"

\* the unforced branch of the type selection in spawnHeroInLane
HeroTypeFor(waveNumber, heroTypeRoll) ==
    IF waveNumber >= 10 /\ heroTypeRoll > 700 THEN "oathblade"
    ELSE IF waveNumber >= 5 /\ heroTypeRoll > 500 THEN "ashboltscout"
    ELSE "militiant"

\* Game.getWaveScaling, in hundredths: 1 + (waveNumber - 1) * 0.05
GetWaveScaling(g) == 100 + (g.waveNumber - 1) * 5

\* the scaling with one Math.ceil, taken after the boss factor
ScaledOnce(g, hero, jitterRoll) ==
    LET boss == g.waveNumber % 5 = 0
        health2 == IF boss THEN CeilDiv(hero.health * GetWaveScaling(g) * 3, 200)
                   ELSE CeilDiv(hero.health * GetWaveScaling(g), 100)
        damage2 == IF boss THEN CeilDiv(hero.damage * GetWaveScaling(g) * 3, 200)
                   ELSE CeilDiv(hero.damage * GetWaveScaling(g), 100)
        speed2 == IF boss THEN (hero.moveSpeed * 8) \div 10 ELSE hero.moveSpeed
        waveSpeedScale == Min(150, 100 + (g.waveNumber - 1) * 2)
        speed3 == (speed2 * waveSpeedScale) \div 100
        speed4 == (speed3 * (900 + jitterRoll \div 5)) \div 1000
    IN  [hero EXCEPT !.health = health2, !.maxHealth = health2, !.damage = damage2,
                     !.moveSpeed = speed4]

\* the scaling statements of spawnHeroInLane (no option multipliers)
Scaled(g, hero, jitterRoll) ==
    LET health1 == CeilDiv(hero.health * GetWaveScaling(g), 100)
        damage1 == CeilDiv(hero.damage * GetWaveScaling(g), 100)
        boss == g.waveNumber % 5 = 0
        health2 == IF boss THEN CeilDiv(health1 * 3, 2) ELSE health1
        damage2 == IF boss THEN CeilDiv(damage1 * 3, 2) ELSE damage1
        speed2 == IF boss THEN (hero.moveSpeed * 8) \div 10 ELSE hero.moveSpeed
        waveSpeedScale == Min(150, 100 + (g.waveNumber - 1) * 2)
        speed3 == (speed2 * waveSpeedScale) \div 100
        speed4 == (speed3 * (900 + jitterRoll \div 5)) \div 1000
    IN  [hero EXCEPT !.health = health2, !.maxHealth = health2, !.damage = damage2,
                     !.moveSpeed = speed4]

\* Game.spawnHeroInLane (no options) followed by Lane.addHero
SpawnHeroInLane(cx, laneIndex, rolls) ==
    IF laneIndex < 0 \/ laneIndex >= LaneCount
    THEN cx
    ELSE LET type == HeroTypeFor(cx.game.waveNumber, rolls.type)
             hero == Scaled(cx.game, NewHero(type, laneIndex, cx.game.tileCount - 1, FreshUid(cx, 100)),
                            rolls.jitter)
         IN  [cx EXCEPT !.game.lanes[laneIndex].heroes = Append(@, hero),
                        !.obs.spawns = @ + 1]

(***************************************************************************)
(* Game: the wave scheduler.                                               *)
(***************************************************************************)
\* calculateHeroCount that rounds the boss count up
CalculateHeroCountRounded(g) ==
    LET count == 10 + g.waveNumber * 5
    IN  IF g.waveNumber % 5 = 0
        THEN [game |-> [g EXCEPT !.bossWave = TRUE], count |-> (count * 3 + 1) \div 2]
        ELSE [game |-> [g EXCEPT !.bossWave = FALSE], count |-> count]

\* Game.calculateHeroCount: [game, count]
CalculateHeroCount(g) ==
    LET count == 10 + g.waveNumber * 5
    IN  IF g.waveNumber % 5 = 0
        THEN [game |-> [g EXCEPT !.bossWave = TRUE], count |-> (count * 3) \div 2]
        ELSE [game |-> [g EXCEPT !.bossWave = FALSE], count |-> count]

\* triggerOnslaught that leaves a boss wave its 700 ms
TriggerOnslaughtUnhurried(cx) ==
    LET onslaughtCount == cx.game.heroesInWave * 2
    IN  [cx EXCEPT !.game.onslaughtTriggered = TRUE,
                   !.game.onslaughtComplete = FALSE,
                   !.game.heroesInWave = @ + onslaughtCount,
                   !.game.heroesRemaining = @ + onslaughtCount,
                   !.game.spawnDelay = IF cx.game.bossWave THEN 700 ELSE 500,
                   !.obs.onslaughts = @ + 1,
                   !.log = Append(@, [ev |-> "onslaught", added |-> onslaughtCount])]

\* triggerOnslaught that adds the wave size once
TriggerOnslaughtSingle(cx) ==
    LET onslaughtCount == cx.game.heroesInWave
    IN  [cx EXCEPT !.game.onslaughtTriggered = TRUE,
                   !.game.onslaughtComplete = FALSE,
                   !.game.heroesInWave = @ + onslaughtCount,
                   !.game.heroesRemaining = @ + onslaughtCount,
                   !.game.spawnDelay = IF cx.game.bossWave THEN 400 ELSE 500,
                   !.obs.onslaughts = @ + 1,
                   !.log = Append(@, [ev |-> "onslaught", added |-> onslaughtCount])]

\* Game.triggerOnslaught (default multiplier 2)
TriggerOnslaught(cx) ==
    LET onslaughtCount == cx.game.heroesInWave * 2
    IN  [cx EXCEPT !.game.onslaughtTriggered = TRUE,
                   !.game.onslaughtComplete = FALSE,
                   !.game.heroesInWave = @ + onslaughtCount,
                   !.game.heroesRemaining = @ + onslaughtCount,
                   !.game.spawnDelay = IF cx.game.bossWave THEN 400 ELSE 500,
                   !.obs.onslaughts = @ + 1,
                   !.log = Append(@, [ev |-> "onslaught", added |-> onslaughtCount])]

\* Game.checkForOnslaught
CheckForOnslaught(cx) ==
    IF cx.game.onslaughtTriggered \/ cx.game.onslaughtComplete
    THEN cx
    ELSE IF cx.game.heroesRemaining <= CeilDiv(cx.game.heroesInWave, 5)
    THEN TriggerOnslaught(cx)
    ELSE cx

\* no options: every key undefined
NoOptions ==
    [given |-> {}, waveNumber |-> 0, heroCount |-> 0, spawnDelay |-> 0, isBossWave |-> FALSE]

\* startWave that skips a wave number
StartWaveSkipping(cx, options) ==
    LET g0 == cx.game
        g1 == [g0 EXCEPT !.waveNumber = IF "waveNumber" \in options.given
                                        THEN options.waveNumber ELSE @ + 2,
                         !.onslaughtTriggered = FALSE,
                         !.onslaughtComplete = FALSE,
                         !.isPreparingNextWave = FALSE]
        counted == IF "heroCount" \in options.given /\ options.heroCount # 0
                   THEN [game |-> g1, count |-> options.heroCount]
                   ELSE CalculateHeroCount(g1)
        g2 == [counted.game EXCEPT !.heroesInWave = counted.count,
                                   !.heroesRemaining = counted.count]
        g3 == IF "spawnDelay" \in options.given
              THEN [g2 EXCEPT !.spawnDelay = options.spawnDelay]
              ELSE IF ("isBossWave" \in options.given /\ options.isBossWave) \/ g2.bossWave
              THEN [g2 EXCEPT !.spawnDelay = 700, !.bossWave = TRUE]
              ELSE [g2 EXCEPT !.spawnDelay = Max(300, 1000 - g2.waveNumber * 20)]
    IN  [cx EXCEPT !.game = g3,
                   !.obs = [@ EXCEPT !.spawns = 0, !.onslaughts = 0, !.bonuses = 0,
                                     !.size = g3.heroesInWave, !.preparedAt = 0]]

\* startWave with a boss delay above every value of the formula
StartWaveSlowBoss(cx, options) ==
    LET g0 == cx.game
        g1 == [g0 EXCEPT !.waveNumber = IF "waveNumber" \in options.given
                                        THEN options.waveNumber ELSE @ + 1,
                         !.onslaughtTriggered = FALSE,
                         !.onslaughtComplete = FALSE,
                         !.isPreparingNextWave = FALSE]
        counted == IF "heroCount" \in options.given /\ options.heroCount # 0
                   THEN [game |-> g1, count |-> options.heroCount]
                   ELSE CalculateHeroCount(g1)
        g2 == [counted.game EXCEPT !.heroesInWave = counted.count,
                                   !.heroesRemaining = counted.count]
        g3 == IF "spawnDelay" \in options.given
              THEN [g2 EXCEPT !.spawnDelay = options.spawnDelay]
              ELSE IF ("isBossWave" \in options.given /\ options.isBossWave) \/ g2.bossWave
              THEN [g2 EXCEPT !.spawnDelay = 1100, !.bossWave = TRUE]
              ELSE [g2 EXCEPT !.spawnDelay = Max(300, 1000 - g2.waveNumber * 20)]
    IN  [cx EXCEPT !.game = g3,
                   !.obs = [@ EXCEPT !.spawns = 0, !.onslaughts = 0, !.bonuses = 0,
                                     !.size = g3.heroesInWave, !.preparedAt = 0]]

\* Game.startWave
StartWave(cx, options) ==
    LET g0 == cx.game
        g1 == [g0 EXCEPT !.waveNumber = IF "waveNumber" \in options.given
                                        THEN options.waveNumber ELSE @ + 1,
                         !.onslaughtTriggered = FALSE,
                         !.onslaughtComplete = FALSE,
                         !.isPreparingNextWave = FALSE]
        counted == IF "heroCount" \in options.given /\ options.heroCount # 0
                   THEN [game |-> g1, count |-> options.heroCount]
                   ELSE CalculateHeroCount(g1)
        g2 == [counted.game EXCEPT !.heroesInWave = counted.count,
                                   !.heroesRemaining = counted.count]
        g3 == IF "spawnDelay" \in options.given
              THEN [g2 EXCEPT !.spawnDelay = options.spawnDelay]
              ELSE IF ("isBossWave" \in options.given /\ options.isBossWave) \/ g2.bossWave
              THEN [g2 EXCEPT !.spawnDelay = 700, !.bossWave = TRUE]
              ELSE [g2 EXCEPT !.spawnDelay = Max(300, 1000 - g2.waveNumber * 20)]
    IN  [cx EXCEPT !.game = g3,
                   !.obs = [@ EXCEPT !.spawns = 0, !.onslaughts = 0, !.bonuses = 0,
                                     !.size = g3.heroesInWave, !.preparedAt = 0]]

\* the flag updates spawnNextHero makes when the wave has nothing left
OnslaughtDone(cx) ==
    IF cx.game.onslaughtTriggered
    THEN [cx EXCEPT !.game.onslaughtComplete = TRUE, !.game.onslaughtTriggered = FALSE]
    ELSE cx

\* the check without the look at onslaughtTriggered
SpawnOnslaughtCheckAgain(cx) ==
    IF cx.game.heroesRemaining = CeilDiv(cx.game.heroesInWave, 5)
    THEN TriggerOnslaught(cx)
    ELSE cx

\* no check at all: the wave is never enlarged
SpawnOnslaughtCheckNever(cx) == cx

\* the onslaught check of spawnNextHero, right after the decrement
SpawnOnslaughtCheck(cx) ==
    IF cx.game.heroesRemaining = CeilDiv(cx.game.heroesInWave, 5)
       /\ ~cx.game.onslaughtTriggered
    THEN TriggerOnslaught(cx)
    ELSE cx

\* Game.spawnNextHero; setTimeout adds one pending callback
\* spawnNextHero that spawns without counting the hero
SpawnNextHeroUncounted(cx, rolls) ==
    IF cx.game.heroesRemaining <= 0
    THEN OnslaughtDone(cx)
    ELSE LET laneIndex == (rolls.lane * LaneCount) \div 1000
             spawned == SpawnHeroInLane(cx, laneIndex, rolls)
             checked == SpawnOnslaughtCheck(spawned)
         IN  IF checked.game.heroesRemaining > 0
             THEN [checked EXCEPT !.game.spawnTimeouts = @ + 1]
             ELSE OnslaughtDone(checked)

\* Game.spawnNextHero
SpawnNextHero(cx, rolls) ==
    IF cx.game.heroesRemaining <= 0
    THEN OnslaughtDone(cx)
    ELSE LET laneIndex == (rolls.lane * LaneCount) \div 1000
             spawned == SpawnHeroInLane(cx, laneIndex, rolls)
             counted == [spawned EXCEPT !.game.heroesRemaining = @ - 1]
             checked == SpawnOnslaughtCheck(counted)
         IN  IF checked.game.heroesRemaining > 0
             THEN [checked EXCEPT !.game.spawnTimeouts = @ + 1]
             ELSE OnslaughtDone(checked)

\* Game.spawnWave
SpawnWave(cx, options, rolls) == SpawnNextHero(StartWave(cx, options), rolls)

\* startNextWavePreparation that leaves isPreparingNextWave as it was
StartNextWavePreparationUnflagged(cx) ==
    IF cx.game.isPreparingNextWave
    THEN cx
    ELSE LET waveBonus == 10 + cx.game.waveNumber * 2
         IN  [cx EXCEPT !.game.daen = @ + Daen(waveBonus),
                        !.game.preparationTimer = 15000,
                        !.obs.bonuses = @ + 1,
                        !.obs.preparedAt = cx.obs.clock,
                        !.log = Append(@, [ev |-> "prepare", bonus |-> waveBonus])]

\* Game.startNextWavePreparation (default duration 15000)
StartNextWavePreparation(cx) ==
    IF cx.game.isPreparingNextWave
    THEN cx
    ELSE LET waveBonus == 10 + cx.game.waveNumber * 2
         IN  [cx EXCEPT !.game.daen = @ + Daen(waveBonus),
                        !.game.isPreparingNextWave = TRUE,
                        !.game.preparationTimer = 15000,
                        !.obs.bonuses = @ + 1,
                        !.obs.preparedAt = cx.obs.clock,
                        !.log = Append(@, [ev |-> "prepare", bonus |-> waveBonus])]

\* some lane still has a hero
AnyHero(g) == \E l \in LaneIndices : Len(g.lanes[l].heroes) > 0

\* areAllHeroesDead that starts the preparation whatever is left to spawn
AreAllHeroesDeadEarly(cx) ==
    IF AnyHero(cx.game)
    THEN [cx |-> cx, ret |-> FALSE]
    ELSE IF ~cx.game.isPreparingNextWave /\ cx.game.waveNumber > 0
    THEN [cx |-> StartNextWavePreparation(cx), ret |-> TRUE]
    ELSE [cx |-> cx, ret |-> TRUE]

\* Game.areAllHeroesDead: [cx, ret]
AreAllHeroesDead(cx) ==
    IF AnyHero(cx.game)
    THEN [cx |-> cx, ret |-> FALSE]
    ELSE IF ~cx.game.isPreparingNextWave /\ cx.game.heroesRemaining = 0
            /\ cx.game.waveNumber > 0
    THEN [cx |-> StartNextWavePreparation(cx), ret |-> TRUE]
    ELSE [cx |-> cx, ret |-> TRUE]

\* checkGameOver that looks for a hero beyond the boundary, not on it
CheckGameOverBeyond(cx) ==
    IF \E l \in LaneIndices : \E i \in 1 .. Len(cx.game.lanes[l].heroes) :
           cx.game.lanes[l].heroes[i].position < 0
    THEN [cx EXCEPT !.game.gameOver = TRUE, !.game.victory = "false"]
    ELSE IF cx.game.waveNumber >= 10
    THEN LET dead == AreAllHeroesDead(cx)
         IN  IF dead.ret
             THEN [dead.cx EXCEPT !.game.gameOver = TRUE, !.game.victory = "true"]
             ELSE dead.cx
    ELSE cx

\* checkGameOver that wins only past the tenth wave
CheckGameOverPastTarget(cx) ==
    IF \E l \in LaneIndices : \E i \in 1 .. Len(cx.game.lanes[l].heroes) :
           cx.game.lanes[l].heroes[i].position <= 0
    THEN [cx EXCEPT !.game.gameOver = TRUE, !.game.victory = "false"]
    ELSE IF cx.game.waveNumber > 10
    THEN LET dead == AreAllHeroesDead(cx)
         IN  IF dead.ret
             THEN [dead.cx EXCEPT !.game.gameOver = TRUE, !.game.victory = "true"]
             ELSE dead.cx
    ELSE cx

\* Game.checkGameOver
CheckGameOver(cx) ==
    IF \E l \in LaneIndices : \E i \in 1 .. Len(cx.game.lanes[l].heroes) :
           cx.game.lanes[l].heroes[i].position <= 0
    THEN [cx EXCEPT !.game.gameOver = TRUE, !.game.victory = "false"]
    ELSE IF cx.game.waveNumber >= 10
    THEN LET dead == AreAllHeroesDead(cx)
         IN  IF dead.ret
             THEN [dead.cx EXCEPT !.game.gameOver = TRUE, !.game.victory = "true"]
             ELSE dead.cx
    ELSE cx

\* the timers of Game.update with a preparation timer that has to pass zero
UpdateTimersPastZero(cx, deltaTime, rolls) ==
    IF cx.game.isPreparingNextWave
    THEN LET timed == [cx EXCEPT !.game.preparationTimer = @ - deltaTime]
         IN  IF timed.game.preparationTimer < 0
             THEN SpawnWave([timed EXCEPT !.game.isPreparingNextWave = FALSE], NoOptions, rolls)
             ELSE timed
    ELSE LET timed == [cx EXCEPT !.game.waveTimer = @ + deltaTime]
         IN  IF timed.game.waveTimer >= timed.game.waveInterval
                /\ timed.game.heroesInWave = 0
             THEN SpawnWave([timed EXCEPT !.game.waveTimer = 0], NoOptions, rolls)
             ELSE timed

\* the timers of Game.update with a wave timer that has to pass the interval
UpdateTimersPastInterval(cx, deltaTime, rolls) ==
    IF cx.game.isPreparingNextWave
    THEN LET timed == [cx EXCEPT !.game.preparationTimer = @ - deltaTime]
         IN  IF timed.game.preparationTimer <= 0
             THEN SpawnWave([timed EXCEPT !.game.isPreparingNextWave = FALSE], NoOptions, rolls)
             ELSE timed
    ELSE LET timed == [cx EXCEPT !.game.waveTimer = @ + deltaTime]
         IN  IF timed.game.waveTimer > timed.game.waveInterval
                /\ timed.game.heroesInWave = 0
             THEN SpawnWave([timed EXCEPT !.game.waveTimer = 0], NoOptions, rolls)
             ELSE timed

\* the wave and preparation timers of Game.update
UpdateTimers(cx, deltaTime, rolls) ==
    IF cx.game.isPreparingNextWave
    THEN LET timed == [cx EXCEPT !.game.preparationTimer = @ - deltaTime]
         IN  IF timed.game.preparationTimer <= 0
             THEN SpawnWave([timed EXCEPT !.game.isPreparingNextWave = FALSE], NoOptions, rolls)
             ELSE timed
    ELSE LET timed == [cx EXCEPT !.game.waveTimer = @ + deltaTime]
         IN  IF timed.game.waveTimer >= timed.game.waveInterval
                /\ timed.game.heroesInWave = 0
             THEN SpawnWave([timed EXCEPT !.game.waveTimer = 0], NoOptions, rolls)
             ELSE timed

\* update() without its first line: it runs whatever gameOver and isPaused are
UpdateRegardless(cx, deltaTime, rolls) ==
    CHOOSE done \in
        {CheckGameOver(checked) :
            checked \in {AreAllHeroesDead(fought).cx :
                fought \in {UpdateLanes(timed, 0, deltaTime) :
                    timed \in {UpdateTimers(credited, deltaTime, rolls) :
                        credited \in {[cx EXCEPT !.game.daen = @ + deltaTime,
                                                 !.obs.clock = @ + deltaTime]}}}}} : TRUE

\* Game.update: the Daen credit, the timers, the lanes, areAllHeroesDead and
\* checkGameOver, each statement run on the outcome of the one before
Update(cx, deltaTime, rolls) ==
    IF cx.game.gameOver \/ cx.game.isPaused
    THEN cx
    ELSE CHOOSE done \in
             {CheckGameOver(checked) :
                 checked \in {AreAllHeroesDead(fought).cx :
                     fought \in {UpdateLanes(timed, 0, deltaTime) :
                         timed \in {UpdateTimers(credited, deltaTime, rolls) :
                             credited \in {[cx EXCEPT !.game.daen = @ + deltaTime,
                                                      !.obs.clock = @ + deltaTime]}}}}} : TRUE

\* Game.restart; the frame loop it restarts is the one the ticks model
Restart(cx) ==
    [cx EXCEPT !.game.daen = Daen(10),
               !.game.lanes = [l \in LaneIndices |-> NewLane(cx.game.tileCount)],
               !.game.selectedMinionType = Null,
               !.game.gameOver = FALSE,
               !.game.waveNumber = 0,
               !.game.waveTimer = 0,
               !.obs.attacked = {}]

(***************************************************************************)
(* The state machine: the calls made on the game by the frame loop, the    *)
(* spawn timers, the player, and a test harness that calls the public      *)
(* methods of Game, Lane and Unit directly.                                *)
(***************************************************************************)
\* what the last call returned; calls that return nothing leave Void
Called(op, ret) == [op |-> op, ret |-> ret]
Void == [op |-> "void", ret |-> FALSE]

Init ==
    /\ game = NewGame
    /\ corpse = NullUnit
    /\ log = <<>>
    /\ lastCall = Void
    /\ obs = [spawns |-> 0, onslaughts |-> 0, bonuses |-> 0, size |-> 0, waveCalls |-> 0,
              clock |-> 0, attacked |-> {}, preparedAt |-> 0]
    /\ ticks = 0
    /\ calls = 0
    /\ GameEvents = NewEventSystem

Held == IF IsNull(corpse) THEN {} ELSE {corpse.uid}

\* the context a call starts from, with the random outcomes it will draw
Cx(rnd) == [game |-> game, rnd |-> rnd, log |-> <<>>, held |-> Held, obs |-> obs]

Rolls == [lane : LaneDraws, type : TypeDraws, jitter : JitterDraws]

\* kill-reward draws made by a call, counted on a run with the draws fixed
Draws(after) == Len(SelectSeq(after.log, LAMBDA e : e.ev = "draw"))
Zeros(n) == [i \in 1 .. n |-> 0]

\* the state after a call
Returned(after, op, ret) ==
    /\ game' = after.game
    /\ log' = after.log
    /\ obs' = after.obs
    /\ lastCall' = IF op = "void" THEN Void ELSE Called(op, ret)
    /\ UNCHANGED GameEvents

\* a call made by the player or the harness, counted against MaxCalls
Call == calls < MaxCalls /\ calls' = calls + 1

\* Game.selectMinion(minionType)
SelectMinion(type) ==
    /\ Call
    /\ Returned([Cx(<<>>) EXCEPT !.game.selectedMinionType = type], "void", FALSE)
    /\ corpse' = NullUnit
    /\ UNCHANGED ticks

\* Game.placeMinionAt(laneIndex, tileIndex)
PlaceMinion(laneIndex, tileIndex) ==
    /\ Call
    /\ MinionCount(game) < MaxMinions
    /\ LET done == PlaceMinionAt(Cx(<<>>), laneIndex, tileIndex)
       IN  Returned(done.cx, "placeMinionAt", done.ret)
    /\ corpse' = NullUnit
    /\ UNCHANGED ticks

\* Game.update(deltaTime), called by the frame loop, at most maxTicks times
TickWithin(deltaTime, maxTicks) ==
    /\ ticks < maxTicks
    /\ \E rolls \in Rolls :
         LET n == Draws(Update(Cx(Zeros(HeroCount(game) + 1)), deltaTime, rolls))
         IN  \E rnd \in [1 .. n -> CoinDraws] :
                 Returned(Update(Cx(rnd), deltaTime, rolls), "void", FALSE)
    /\ ticks' = IF game.gameOver \/ game.isPaused THEN ticks ELSE ticks + 1
    /\ corpse' = NullUnit
    /\ UNCHANGED calls

Tick(deltaTime) == TickWithin(deltaTime, MaxTicks)

\* the setTimeout callback scheduled by spawnNextHero
SpawnTimer(rolls, maxSpawns, maxHeroes) ==
    /\ game.spawnTimeouts > 0
    /\ HeroCount(game) < maxHeroes
    /\ obs.spawns < maxSpawns
    /\ Returned(SpawnNextHero([Cx(<<>>) EXCEPT !.game.spawnTimeouts = @ - 1], rolls),
                "void", FALSE)
    /\ UNCHANGED <<corpse, ticks, calls>>

\* harness: hero.takeDamage(amount) on a hero of a lane
HeroDamaged(l, i, amount) ==
    /\ Call
    /\ i \in 1 .. Len(game.lanes[l].heroes)
    /\ LET hero == game.lanes[l].heroes[i]
           n == Draws(HeroTakeDamage(Cx(Zeros(1)), hero, amount).cx)
       IN  \E rnd \in [1 .. n -> CoinDraws] :
               LET done == HeroTakeDamage(Cx(rnd), hero, amount)
               IN  /\ Returned(done.cx, "hero.takeDamage", done.ret)
                   /\ corpse' = IF done.ret THEN done.unit ELSE corpse
    /\ UNCHANGED ticks

\* harness: hero.die() on a hero of a lane
HeroDied(l, i) ==
    /\ Call
    /\ i \in 1 .. Len(game.lanes[l].heroes)
    /\ LET hero == game.lanes[l].heroes[i]
       IN  \E rnd \in [1 .. 1 -> CoinDraws] :
               /\ Returned(HeroDie(Cx(rnd), hero), "void", FALSE)
               /\ corpse' = hero
    /\ UNCHANGED ticks

\* harness: takeDamage(amount) on the hero it saw removed
CorpseDamaged(amount) ==
    /\ Call
    /\ ~IsNull(corpse)
    /\ LET done == HeroTakeDamage(Cx(Zeros(1)), corpse, amount)
       IN  /\ Returned(done.cx, "corpse.takeDamage", done.ret)
           /\ corpse' = done.unit
    /\ UNCHANGED ticks

\* harness: die() on the hero it saw removed
CorpseDied ==
    /\ Call
    /\ ~IsNull(corpse)
    /\ Returned(HeroDie(Cx(Zeros(1)), corpse), "void", FALSE)
    /\ UNCHANGED <<corpse, ticks>>

\* harness: minion.takeDamage(amount) on the minion of a tile
MinionDamaged(l, t, amount) ==
    /\ Call
    /\ ~IsNull(game.lanes[l].tiles[t])
    /\ LET done == MinionTakeDamage(Cx(<<>>), game.lanes[l].tiles[t], amount)
       IN  Returned(done.cx, "minion.takeDamage", done.ret)
    /\ corpse' = NullUnit
    /\ UNCHANGED ticks

\* harness: lane.placeMinion(new MinionClass(l, tileIndex, game), tileIndex)
LanePlaced(l, type, tileIndex) ==
    /\ Call
    /\ MinionCount(game) < MaxMinions
    /\ LET minion == NewMinion(type, l, tileIndex, FreshUid(Cx(<<>>), 0))
           placed == LanePlaceMinion(game.lanes[l], minion, tileIndex)
       IN  Returned([Cx(<<>>) EXCEPT !.game.lanes[l] = placed.lane], "lane.placeMinion",
                    placed.ret)
    /\ corpse' = NullUnit
    /\ UNCHANGED ticks

\* harness: game.spawnWave(options), when no spawn of an earlier wave is pending
WaveSpawned(options, rolls) ==
    /\ Call
    /\ obs.waveCalls < MaxWaveCalls
    /\ game.spawnTimeouts = 0
    /\ HeroCount(game) < MaxHeroes
    /\ LET after == SpawnWave(Cx(<<>>), options, rolls)
       IN  Returned([after EXCEPT !.obs.waveCalls = obs.waveCalls + 1], "void", FALSE)
    /\ corpse' = NullUnit
    /\ UNCHANGED ticks

\* the player restarts the game: game.restart()
Restarted ==
    /\ Call
    /\ Returned(Restart(Cx(<<>>)), "restart", FALSE)
    /\ corpse' = NullUnit
    /\ UNCHANGED ticks

\* InputHandler.constructor: the UI state, with no drag in progress
NewInputHandler == [uiState |-> [selectedMinion |-> Null, showRangeIndicator |-> FALSE]]

\* the game main.js builds: new Game(), then game.inputHandler = new
\* InputHandler(game)
GameWithInput ==
    [f \in DOMAIN NewGame \cup {"inputHandler"} |->
        IF f = "inputHandler" THEN NewInputHandler ELSE NewGame[f]]

\* InputHandler.selectMinion(minionType), called by a minion button
InputSelectMinion(minionType) ==
    /\ Call
    /\ Returned([Cx(<<>>) EXCEPT
                    !.game.inputHandler.uiState.selectedMinion = minionType,
                    !.game.inputHandler.uiState.showRangeIndicator = TRUE,
                    !.game.selectedMinionType = minionType],
                "void", FALSE)
    /\ corpse' = NullUnit
    /\ UNCHANGED ticks

\* InputHandler.deselectMinion(), called by Escape or by the button of the
\* selected type
InputDeselectMinion ==
    /\ Call
    /\ Returned([Cx(<<>>) EXCEPT
                    !.game.inputHandler.uiState.selectedMinion = Null,
                    !.game.inputHandler.uiState.showRangeIndicator = FALSE],
                "void", FALSE)
    /\ corpse' = NullUnit
    /\ UNCHANGED ticks

\* InputHandler.handleClick on the tile (laneIndex, tileIndex) of the
\* canvas, not at the end of a drag
HandleClick(laneIndex, tileIndex) ==
    /\ Call
    /\ MinionCount(game) < MaxMinions
    /\ LET cx == Cx(<<>>)
           selected == cx.game.inputHandler.uiState.selectedMinion
           passed == [cx EXCEPT !.game.selectedMinionType = selected]
           done == PlaceMinionAt(passed, laneIndex, tileIndex)
       IN  IF cx.game.gameOver \/ selected = Null
           THEN Returned(cx, "void", FALSE)
           ELSE IF done.ret
           THEN Returned([done.cx EXCEPT
                             !.game.inputHandler.uiState.selectedMinion = Null,
                             !.game.inputHandler.uiState.showRangeIndicator = FALSE],
                         "handleClick", TRUE)
           ELSE Returned(done.cx, "handleClick", FALSE)
    /\ corpse' = NullUnit
    /\ UNCHANGED ticks

\* harness: game.checkForOnslaught()
OnslaughtChecked ==
    /\ Call
    /\ Returned(CheckForOnslaught(Cx(<<>>)), "void", FALSE)
    /\ corpse' = NullUnit
    /\ UNCHANGED ticks

\* harness: the embedding page sets game.isPaused, the flag update, the
\* frame loop and the renderer read
PauseSet(paused) ==
    /\ Call
    /\ Returned([Cx(<<>>) EXCEPT !.game.isPaused = paused], "void", FALSE)
    /\ corpse' = NullUnit
    /\ UNCHANGED ticks

\* a callback handed to the event system, not yet invoked
NewCallback(eventType, once, does) ==
    [eventType |-> eventType, once |-> once, does |-> does, invoked |-> 0, heard |-> 0]

\* a client calls on(eventType, callback) with a callback that returns
Subscribed(eventType) ==
    /\ Len(GameEvents.callbacks) < MaxCallbacks
    /\ GameEvents' = On([GameEvents EXCEPT !.callbacks =
                                      Append(@, NewCallback(eventType, FALSE, "return"))],
                    eventType, Len(GameEvents.callbacks) + 1, Null)
    /\ UNCHANGED gameVars

\* a client calls once(eventType, callback)
SubscribedOnce(eventType, does) ==
    /\ Len(GameEvents.callbacks) < MaxCallbacks
    /\ GameEvents' = Once([GameEvents EXCEPT !.callbacks =
                                        Append(@, NewCallback(eventType, TRUE, does))],
                      eventType, Len(GameEvents.callbacks) + 1)
    /\ UNCHANGED gameVars

\* a client calls the unsubscribe function on or once returned for a callback
Unsubscribed(callback) ==
    /\ callback \in 1 .. Len(GameEvents.callbacks)
    /\ GameEvents' = Off(GameEvents, GameEvents.callbacks[callback].eventType,
                         callback, Null)
    /\ UNCHANGED gameVars

\* a client calls emit(eventType); every callback listening when the call
\* starts has heard one more emit of its type
Emitted(eventType) ==
    /\ GameEvents.emits < MaxEmits
    /\ LET hearing == {c \in 1 .. Len(GameEvents.callbacks) :
                          /\ GameEvents.callbacks[c].eventType = eventType
                          /\ Listening(GameEvents, c)}
           heard == [GameEvents EXCEPT
                        !.emits = @ + 1,
                        !.callbacks = [c \in 1 .. Len(@) |->
                                          IF c \in hearing
                                          THEN [@[c] EXCEPT !.heard = @ + 1]
                                          ELSE @[c]]]
       IN  GameEvents' = Emit(heard, eventType)
    /\ UNCHANGED gameVars

\* spawnWave({waveNumber}): the wave number given, nothing else overridden
WaveNumbered(waveNumber) ==
    [given |-> {"waveNumber"}, waveNumber |-> waveNumber, heroCount |-> 0,
     spawnDelay |-> 0, isBossWave |-> FALSE]

\* options the harness passes to spawnWave
WaveOf(waveNumber, heroCount) ==
    [given |-> {"waveNumber", "heroCount"}, waveNumber |-> waveNumber,
     heroCount |-> heroCount, spawnDelay |-> 0, isBossWave |-> FALSE]
WaveOptions == {WaveOf(1, n) : n \in {1, 2}}

Next ==
    \/ \E type \in SelectableTypes \cup {Null} : SelectMinion(type)
    \/ \E laneIndex \in (-1) .. LaneCount, tileIndex \in (-1) .. TileCount :
           PlaceMinion(laneIndex, tileIndex)
    \/ \E deltaTime \in DeltaTimes : Tick(deltaTime)
    \/ \E rolls \in Rolls : SpawnTimer(rolls, MaxSpawns, MaxHeroes)
    \/ \E l \in LaneIndices, i \in 1 .. MaxHeroes, amount \in DamageAmounts :
           HeroDamaged(l, i, amount)
    \/ \E l \in LaneIndices, i \in 1 .. MaxHeroes : HeroDied(l, i)
    \/ \E amount \in DamageAmounts : CorpseDamaged(amount)
    \/ CorpseDied
    \/ \E l \in LaneIndices, t \in TileIndices, amount \in DamageAmounts :
           MinionDamaged(l, t, amount)
    \/ \E l \in LaneIndices, type \in MinionRegistry \cap SelectableTypes,
          tileIndex \in (-1) .. TileCount : LanePlaced(l, type, tileIndex)
    \/ \E options \in WaveOptions, rolls \in Rolls : WaveSpawned(options, rolls)
    \/ OnslaughtChecked
    \/ \E paused \in BOOLEAN : PauseSet(paused)
    \/ \E eventType \in EventTypes : Subscribed(eventType)
    \/ \E eventType \in EventTypes, does \in Behaviours : SubscribedOnce(eventType, does)
    \/ \E callback \in 1 .. MaxCallbacks : Unsubscribed(callback)
    \/ \E eventType \in EventTypes : Emitted(eventType)

Spec == Init /\ [][Next]_vars

(***************************************************************************)
(* Scenarios: the same actions, each with the callers and the inputs that  *)
(* one family of properties is about.                                      *)
(***************************************************************************)
\* the grid: selections and placements, valid and invalid, and removals
NextGrid ==
    \/ \E type \in {"gravelim", "wraith", Null} : SelectMinion(type)
    \/ \E laneIndex \in (-1) .. LaneCount, tileIndex \in (-1) .. TileCount :
           PlaceMinion(laneIndex, tileIndex)
    \/ \E l \in LaneIndices, tileIndex \in (-1) .. TileCount :
           LanePlaced(l, "gravelim", tileIndex)
    \/ \E l \in LaneIndices, t \in TileIndices, amount \in DamageAmounts :
           MinionDamaged(l, t, amount)

SpecGrid == Init /\ [][NextGrid]_vars

\* a match: the player places minions, one hero at a time walks in and fights
NextPlay ==
    \/ \E type \in {"gravelim", "dreadchant", "daemonaltar"} : SelectMinion(type)
    \/ \E laneIndex \in LaneIndices, tileIndex \in TileIndices :
           PlaceMinion(laneIndex, tileIndex)
    \/ \E deltaTime \in {5000, 20000} : Tick(deltaTime)
    \/ \E rolls \in Rolls : WaveSpawned(WaveOf(1, 1), rolls)
    \/ \E l \in LaneIndices, i \in 1 .. MaxHeroes, amount \in DamageAmounts :
           HeroDamaged(l, i, amount)
    \/ \E l \in LaneIndices, t \in TileIndices, amount \in DamageAmounts :
           MinionDamaged(l, t, amount)

SpecPlay == Init /\ [][NextPlay]_vars

\* deaths: heroes and Dreadchants damaged and killed, in a tick or directly
NextDeath ==
    \/ \E l \in LaneIndices, tileIndex \in TileIndices :
           LanePlaced(l, "dreadchant", tileIndex)
    \/ \E deltaTime \in {5000} : Tick(deltaTime)
    \/ \E rolls \in Rolls : WaveSpawned(WaveOf(1, 1), rolls)
    \/ \E l \in LaneIndices, i \in 1 .. MaxHeroes, amount \in DamageAmounts :
           HeroDamaged(l, i, amount)
    \/ \E l \in LaneIndices, i \in 1 .. MaxHeroes : HeroDied(l, i)
    \/ \E amount \in DamageAmounts : CorpseDamaged(amount)
    \/ CorpseDied
    \/ \E l \in LaneIndices, t \in TileIndices, amount \in DamageAmounts :
           MinionDamaged(l, t, amount)

SpecDeath == Init /\ [][NextDeath]_vars

\* targeting: minions of range 5 and of range 0, and heroes, at every
\* distance the lane allows
NextTarget ==
    \/ \E type \in {"ashling", "gnarlroot"} : SelectMinion(type)
    \/ \E laneIndex \in LaneIndices, tileIndex \in TileIndices :
           PlaceMinion(laneIndex, tileIndex)
    \/ \E deltaTime \in {5000} : Tick(deltaTime)
    \/ \E rolls \in Rolls : WaveSpawned(WaveOf(1, 1), rolls)

SpecTarget == Init /\ [][NextTarget]_vars

\* the wave scheduler: a wave is spawned, its heroes are killed, time passes
NextWave ==
    \/ \E options \in WaveOptions, rolls \in Rolls : WaveSpawned(options, rolls)
    \/ \E rolls \in Rolls : SpawnTimer(rolls, MaxSpawns, MaxHeroes)
    \/ \E deltaTime \in DeltaTimes : Tick(deltaTime)
    \/ \E l \in LaneIndices, i \in 1 .. MaxHeroes : HeroDied(l, i)
    \/ OnslaughtChecked

SpecWave == Init /\ [][NextWave]_vars

\* wave 1 with its 15 heroes, by spawnWave or by the wave timer, followed
\* through all its spawn timers while the frame loop runs
NextWaveOne ==
    \/ \E rolls \in {r \in Rolls : r.lane = 0 /\ r.type = 0} :
           WaveSpawned(WaveOf(1, 15), rolls)
    \/ \E rolls \in {r \in Rolls : r.lane = 0 /\ r.type = 0} :
           SpawnTimer(rolls, MaxWaveOneSpawns, MaxWaveOneSpawns)
    \/ \E deltaTime \in DeltaTimes : Tick(deltaTime)

SpecWaveOne == Init /\ [][NextWaveOne]_vars

\* the end of the game: waves 9 and 10, heroes that walk to the castle and
\* heroes that are killed
NextEnd ==
    \/ \E options \in {WaveOf(9, 1), WaveOf(10, 1)}, rolls \in Rolls :
           WaveSpawned(options, rolls)
    \/ \E rolls \in Rolls : SpawnTimer(rolls, MaxSpawns, MaxHeroes)
    \/ \E deltaTime \in DeltaTimes : Tick(deltaTime)
    \/ \E l \in LaneIndices, i \in 1 .. MaxHeroes : HeroDied(l, i)

SpecEnd == Init /\ [][NextEnd]_vars

\* pausing: a wave is spawning while the game is paused and resumed
NextPause ==
    \/ \E paused \in BOOLEAN : PauseSet(paused)
    \/ \E rolls \in Rolls : WaveSpawned(WaveOf(1, 2), rolls)
    \/ \E rolls \in Rolls : SpawnTimer(rolls, MaxSpawns, MaxHeroes)
    \/ \E deltaTime \in DeltaTimes : Tick(deltaTime)

SpecPause == Init /\ [][NextPause]_vars

\* the wave the game is won at; the scheduler reaches waves 1 to TargetWave
TargetWave == 10

\* hero attributes: one-hero waves of every number up to the target wave,
\* with every type the wave can draw, started by spawnWave or by the timers
NextScale ==
    \/ \E waveNumber \in 1 .. TargetWave, rolls \in Rolls :
           WaveSpawned(WaveOf(waveNumber, 1), rolls)
    \/ \E rolls \in Rolls : SpawnTimer(rolls, MaxSpawns, MaxHeroes)
    \/ \E deltaTime \in {15000} : Tick(deltaTime)

SpecScale == Init /\ [][NextScale]_vars

\* a fight in short ticks, in the first lane: an Ashling and the hero of a
\* wave attack each other, cool down and attack again; the hero may be killed
NextFight ==
    \/ \E tileIndex \in {0, 1} : LanePlaced(0, "ashling", tileIndex)
    \/ \E rolls \in {r \in Rolls : r.lane = 0 /\ r.type = 0} :
           WaveSpawned(WaveOf(1, 1), rolls)
    \/ \E deltaTime \in {500, 1000} : TickWithin(deltaTime, MaxFightTicks)
    \/ \E l \in LaneIndices, i \in 1 .. MaxHeroes : HeroDied(l, i)

SpecFight == Init /\ [][NextFight]_vars

\* a Daemon Altar on the grid through ticks shorter and longer than 4 s
NextAltar ==
    \/ \E l \in LaneIndices, tileIndex \in TileIndices : LanePlaced(l, "daemonaltar", tileIndex)
    \/ \E deltaTime \in {1000, 4000, 8000} : TickWithin(deltaTime, MaxFightTicks)

SpecAltar == Init /\ [][NextAltar]_vars

\* from the start of the game to its first wave: the player places Ashlings
\* and pauses, the frame loop ticks, the spawn timers of the wave fire
NextStart ==
    \/ \E tileIndex \in {0, 1} : LanePlaced(0, "ashling", tileIndex)
    \/ \E paused \in BOOLEAN : PauseSet(paused)
    \/ \E deltaTime \in {10000, 15000, 20000} : TickWithin(deltaTime, MaxWaitTicks)
    \/ \E rolls \in Rolls : SpawnTimer(rolls, MaxSpawns, MaxHeroes)

SpecStart == Init /\ [][NextStart]_vars

\* a frame of the game loop; the frames of a preparation are followed to
\* its end, the others are counted against MaxWaitTicks
Frame ==
    \E deltaTime \in {5000, 10000} :
        TickWithin(deltaTime, IF game.isPreparingNextWave THEN ticks + 1 ELSE MaxWaitTicks)

\* the wave scheduler from one wave to the next: a match that has reached
\* wave 1, 4 or 9, whose heroes are killed or walk, the preparation that
\* follows, and the wave the preparation timer starts
NextSchedule ==
    \/ \E waveNumber \in {1, 4, 9}, rolls \in {r \in Rolls : r.lane = 0 /\ r.type = 0} :
           game.waveNumber = 0 /\ WaveSpawned(WaveOf(waveNumber, 1), rolls)
    \/ \E rolls \in {r \in Rolls : r.lane = 0} : SpawnTimer(rolls, 2, MaxHeroes)
    \/ \E l \in LaneIndices, i \in 1 .. MaxHeroes : HeroDied(l, i)
    \/ \E paused \in BOOLEAN : PauseSet(paused)
    \/ Frame

SpecSchedule == Init /\ [][NextSchedule]_vars

\* a frame whose update call runs: the game is neither paused nor over
RunningFrame ==
    /\ ~game.isPaused
    /\ ~game.gameOver
    /\ ticks < (IF game.isPreparingNextWave THEN ticks + 1 ELSE MaxWaitTicks)
    /\ ticks' = ticks + 1

\* requestAnimationFrame keeps calling the game loop, which calls update
\* unless the game is paused
SpecScheduleFair == SpecSchedule /\ WF_ticks(RunningFrame)

\* a wave of two heroes, tripled by its onslaught, whose heroes are killed one
\* by one; the preparation that follows and the wave update() starts after it
NextSucceed ==
    \/ \E waveNumber \in {1, 4, 9}, rolls \in {r \in Rolls : r.lane = 0 /\ r.type = 0} :
           game.waveNumber = 0 /\ WaveSpawned(WaveOf(waveNumber, 2), rolls)
    \/ \E rolls \in {r \in Rolls : r.lane = 0 /\ r.type = 0} :
           SpawnTimer(rolls, MaxSpawns, MaxHeroes)
    \/ \E rnd \in [1 .. 1 -> CoinDraws] :
           /\ Len(game.lanes[0].heroes) > 0
           /\ Returned(HeroDie(Cx(rnd), game.lanes[0].heroes[1]), "void", FALSE)
           /\ corpse' = game.lanes[0].heroes[1]
           /\ UNCHANGED <<ticks, calls>>
    \/ Frame

SpecSucceed == Init /\ [][NextSucceed]_vars

\* new Game() with tileCount = LongTileCount
LongGame ==
    [NewGame EXCEPT !.tileCount = LongTileCount,
                    !.lanes = [l \in LaneIndices |-> NewLane(LongTileCount)]]

InitLong ==
    /\ game = LongGame
    /\ corpse = NullUnit
    /\ log = <<>>
    /\ lastCall = Void
    /\ obs = [spawns |-> 0, onslaughts |-> 0, bonuses |-> 0, size |-> 0, waveCalls |-> 0,
              clock |-> 0, attacked |-> {}, preparedAt |-> 0]
    /\ ticks = 0
    /\ calls = 0
    /\ GameEvents = NewEventSystem

\* deaths in long lanes: Dreadchants on any tile of lane 0 and Gravelims on
\* tile 3 of any lane, heroes that walk in from the last tile of either lane
\* and die anywhere on their way
NextLong ==
    \/ \E tileIndex \in 0 .. (LongTileCount - 1) : LanePlaced(0, "dreadchant", tileIndex)
    \/ \E l \in LaneIndices : LanePlaced(l, "gravelim", 3)
    \/ Tick(2000)
    \/ \E rolls \in Rolls : WaveSpawned(WaveOf(1, 1), rolls)
    \/ \E l \in LaneIndices, i \in 1 .. MaxHeroes : HeroDied(l, i)

SpecLong == InitLong /\ [][NextLong]_vars

\* the draws that send an Oathblade into lane 0 from wave 10 on
RageRolls == {r \in Rolls : r.lane = 0 /\ r.type = 800}

\* Oathblades of wave 10 in lane 0, hurt by the Ashlings of the lane and by
\* the harness, updated in ticks of one second
NextRage ==
    \/ \E tileIndex \in {0, 1} : LanePlaced(0, "ashling", tileIndex)
    \/ \E rolls \in RageRolls : WaveSpawned(WaveOf(TargetWave, 1), rolls)
    \/ TickWithin(1000, MaxFightTicks)
    \/ \E l \in LaneIndices, i \in 1 .. MaxHeroes, amount \in DamageAmounts :
           HeroDamaged(l, i, amount)

SpecRage == Init /\ [][NextRage]_vars

\* the draws of the last wave that send an Ashbolt Scout into either lane
MatchRolls == {r \in Rolls : r.type = 600}

\* the last wave of a match: the player has placed Ashlings in lane 0, the
\* heroes of wave 10 arrive on their spawn timers in either lane, and the
\* frame loop ticks while they are shot, fight or walk to the castle
NextMatch ==
    \/ \E tileIndex \in {0, 1} : LanePlaced(0, "ashling", tileIndex)
    \/ \E rolls \in MatchRolls :
           game.waveNumber = 0 /\ WaveSpawned(WaveOf(TargetWave, 2), rolls)
    \/ \E rolls \in MatchRolls : SpawnTimer(rolls, MaxSpawns, MaxHeroes)
    \/ \E deltaTime \in {1000, 5000} : TickWithin(deltaTime, MaxFightTicks)

SpecMatch == Init /\ [][NextMatch]_vars

\* a match that has reached wave 1 or 9 and is restarted at any moment:
\* while the wave spawns, after its heroes were killed or reached the
\* castle, during the preparation, in the next wave
NextRestart ==
    \/ \E waveNumber \in {1, 9}, rolls \in {r \in Rolls : r.lane = 0 /\ r.type = 0} :
           /\ game.waveNumber = 0 /\ obs.waveCalls = 0
           /\ WaveSpawned(WaveOf(waveNumber, 1), rolls)
    \/ \E rolls \in {r \in Rolls : r.lane = 0 /\ r.type = 0} :
           SpawnTimer(rolls, MaxSpawns, MaxHeroes)
    \/ \E i \in 1 .. MaxHeroes : HeroDied(0, i)
    \/ Restarted
    \/ Frame

SpecRestart == Init /\ [][NextRestart]_vars

InitInput ==
    /\ game = GameWithInput
    /\ corpse = NullUnit
    /\ log = <<>>
    /\ lastCall = Void
    /\ obs = [spawns |-> 0, onslaughts |-> 0, bonuses |-> 0, size |-> 0, waveCalls |-> 0,
              clock |-> 0, attacked |-> {}, preparedAt |-> 0]
    /\ ticks = 0
    /\ calls = 0
    /\ GameEvents = NewEventSystem

\* the player at the minion buttons and the canvas: types are selected and
\* deselected, tiles are clicked, and placeMinionAt is also called directly
NextInput ==
    \/ \E type \in {"ashling", "gravelim"} : InputSelectMinion(type)
    \/ InputDeselectMinion
    \/ \E laneIndex \in LaneIndices, tileIndex \in TileIndices :
           HandleClick(laneIndex, tileIndex)
    \/ \E laneIndex \in LaneIndices, tileIndex \in TileIndices :
           PlaceMinion(laneIndex, tileIndex)

SpecInput == InitInput /\ [][NextInput]_vars

\* each wave of a match, 1 to TargetWave, with the hero count, boss flag and
\* spawn delay startWave computes, followed spawn by spawn past its onslaught
NextOnslaught ==
    \/ \E waveNumber \in 1 .. TargetWave, rolls \in {r \in Rolls : r.lane = 0 /\ r.type = 0} :
           game.waveNumber = 0 /\ WaveSpawned(WaveNumbered(waveNumber), rolls)
    \/ \E rolls \in {r \in Rolls : r.lane = 0 /\ r.type = 0} :
           SpawnTimer(rolls, MaxOnslaughtSpawns, MaxOnslaughtSpawns)

SpecOnslaught == Init /\ [][NextOnslaught]_vars

\* the event system alone: clients subscribe, unsubscribe and emit
NextEvents ==
    \/ \E eventType \in EventTypes : Subscribed(eventType)
    \/ \E eventType \in EventTypes, does \in Behaviours : SubscribedOnce(eventType, does)
    \/ \E callback \in 1 .. MaxCallbacks : Unsubscribed(callback)
    \/ \E eventType \in EventTypes : Emitted(eventType)

SpecEvents == Init /\ [][NextEvents]_vars

(***************************************************************************)
(* Properties.                                                             *)
(***************************************************************************)
\* tile indices asked about: every index of a lane and two beyond each end
TileProbes == (-2) .. (TileCount + 1)

\* canPlaceAt answers for the index and the tile, in this state
CanPlaceAtIsBoundsAndEmpty(g) ==
    \A l \in LaneIndices, tileIndex \in TileProbes :
        CanPlaceAt(g.lanes[l], tileIndex)
            <=> /\ 0 <= tileIndex
                /\ tileIndex < TileCount
                /\ IsNull(g.lanes[l].tiles[tileIndex])

\* C1: for every lane and every integer tileIndex, canPlaceAt(tileIndex) is
\* true iff 0 <= tileIndex < tileCount and that tile holds no minion;
\* Lane.placeMinion(minion, tileIndex) returns true exactly when
\* canPlaceAt(tileIndex) was true, and then the tile is non-empty.
PlaceMinionIffCanPlaceAt ==
    [][/\ CanPlaceAtIsBoundsAndEmpty(game)
       /\ CanPlaceAtIsBoundsAndEmpty(game')
       /\ \A l \in LaneIndices, tileIndex \in (-1) .. TileCount :
              LanePlaced(l, "gravelim", tileIndex)
                  => /\ lastCall'.ret <=> CanPlaceAt(game.lanes[l], tileIndex)
                     /\ lastCall'.ret => ~IsNull(game'.lanes[l].tiles[tileIndex])]_vars

\* lane.placeMinion has succeeded on a lane that already held a minion, and
\* canPlaceAt now refuses both tiles
PlaceMinionIffCanPlaceAtWitness ==
    /\ lastCall = Called("lane.placeMinion", TRUE)
    /\ \E l \in LaneIndices :
           /\ Len(game.lanes[l].minions) = 2
           /\ Cardinality({t \in TileIndices : ~CanPlaceAt(game.lanes[l], t)}) = 2

\* the tiles of lane l that reference the minion with this identity
TilesHolding(g, l, uid) == {t \in TileIndices : g.lanes[l].tiles[t].uid = uid}

\* the places of lane l's minions list that reference it
PlacesListing(g, l, uid) ==
    {i \in 1 .. Len(g.lanes[l].minions) : g.lanes[l].minions[i] = uid}

\* C2: after any sequence of placements, attacks and deaths, in every lane
\* the tile view and the list view agree: every minion referenced by a tile
\* appears exactly once in that lane's minions list, every member of the
\* list is referenced by exactly one tile, the tile at its position, and no
\* minion is held by two tiles or two lanes.
TileViewIsListView ==
    \A l \in LaneIndices :
        /\ \A t \in TileIndices :
               ~IsNull(game.lanes[l].tiles[t])
                   => /\ Cardinality(PlacesListing(game, l, game.lanes[l].tiles[t].uid)) = 1
                      /\ TilesHolding(game, l, game.lanes[l].tiles[t].uid) = {t}
                      /\ game.lanes[l].tiles[t].position = Tiles(t)
                      /\ game.lanes[l].tiles[t].lane = l
        /\ \A i \in 1 .. Len(game.lanes[l].minions) :
               /\ Cardinality(TilesHolding(game, l, game.lanes[l].minions[i])) = 1
               /\ PlacesListing(game, l, game.lanes[l].minions[i]) = {i}
        /\ \A k \in LaneIndices \ {l} :
               /\ \A t \in TileIndices :
                      ~IsNull(game.lanes[l].tiles[t])
                          => /\ TilesHolding(game, k, game.lanes[l].tiles[t].uid) = {}
                             /\ PlacesListing(game, k, game.lanes[l].tiles[t].uid) = {}

\* a tick in which the attack of a hero killed a placed minion: the hero is
\* still in the lane, the minion is on no tile and in no list
TileViewIsListViewWitness ==
    /\ lastCall = Void
    /\ ticks > 0
    /\ \E i \in 1 .. Len(log) : log[i].ev = "remove"
    /\ HeroCount(game) = 1
    /\ MinionCount(game) = 0

\* a placement request the game must reject: an index out of bounds, an
\* occupied tile, no selection, a type outside the registry, or too little Daen
InvalidRequest(g, laneIndex, tileIndex) ==
    \/ laneIndex \notin LaneIndices
    \/ tileIndex \notin TileIndices
    \/ /\ laneIndex \in LaneIndices
       /\ tileIndex \in TileIndices
       /\ ~IsNull(g.lanes[laneIndex].tiles[tileIndex])
    \/ g.selectedMinionType = Null
    \/ g.selectedMinionType \notin MinionRegistry
    \/ /\ g.selectedMinionType \in MinionRegistry
       /\ g.daen < Daen(Cost(g.selectedMinionType))

\* occupancy of every tile and the minions list of every lane
Occupancy(g) ==
    [l \in LaneIndices |->
        [tiles |-> g.lanes[l].tiles, minions |-> g.lanes[l].minions]]

\* C3: placeMinionAt(laneIndex, tileIndex) returns false and leaves Daen,
\* every tile's occupancy and every lane's minions list unchanged whenever
\* the lane or tile index is out of bounds, the tile is occupied, Daen is
\* below the selected type's cost, the selected type is not in the
\* registry, or no type is selected.
RejectedPlacementChangesNothing ==
    [][\A laneIndex \in (-1) .. LaneCount, tileIndex \in (-1) .. TileCount :
           (PlaceMinion(laneIndex, tileIndex) /\ InvalidRequest(game, laneIndex, tileIndex))
               => /\ lastCall' = Called("placeMinionAt", FALSE)
                  /\ game'.daen = game.daen
                  /\ Occupancy(game') = Occupancy(game)]_vars

\* placeMinionAt has returned false while a registered type was selected,
\* Daen was below its cost and a tile was free
RejectedPlacementChangesNothingWitness ==
    /\ lastCall = Called("placeMinionAt", FALSE)
    /\ game.selectedMinionType = "gravelim"
    /\ game.daen = 0
    /\ MinionCount(game) = 1

\* C4: Daen is never negative; the only debit is a successful
\* placeMinionAt, which happens only when Daen >= the selected type's cost
\* and subtracts exactly that cost together with occupying the tile; a
\* placement that fails leaves Daen as it was; every other change of Daen
\* is a credit.
DaenDebitedOnlyByPlacement ==
    [][/\ game.daen >= 0
       /\ game'.daen >= 0
       /\ game'.daen < game.daen
              => \E laneIndex \in LaneIndices, tileIndex \in TileIndices :
                     /\ PlaceMinion(laneIndex, tileIndex)
                     /\ lastCall' = Called("placeMinionAt", TRUE)
       /\ \A laneIndex \in LaneIndices, tileIndex \in TileIndices :
              PlaceMinion(laneIndex, tileIndex)
                  => IF lastCall'.ret
                     THEN /\ game.selectedMinionType \in MinionRegistry
                          /\ game.daen >= Daen(Cost(game.selectedMinionType))
                          /\ game'.daen = game.daen - Daen(Cost(game.selectedMinionType))
                          /\ IsNull(game.lanes[laneIndex].tiles[tileIndex])
                          /\ ~IsNull(game'.lanes[laneIndex].tiles[tileIndex])
                     ELSE /\ game'.daen = game.daen
                          /\ Occupancy(game') = Occupancy(game)]_vars

\* with Daen 10 a 5-cost Gravelim has been placed and Daen is 5
DaenDebitedOnlyByPlacementWitness ==
    /\ lastCall = Called("placeMinionAt", TRUE)
    /\ game.selectedMinionType = "gravelim"
    /\ game.daen = Daen(5)
    /\ ticks = 0
    /\ MinionCount(game) = 1

\* identities of the heroes in the lanes' hero lists, of one lane and of all
HeroUidsOfLane(g, l) == {g.lanes[l].heroes[i].uid : i \in 1 .. Len(g.lanes[l].heroes)}
HeroUids(g) == UNION {HeroUidsOfLane(g, l) : l \in LaneIndices}

\* identities of the minions on tiles and of the members of the minions lists
MinionUids(g) ==
    UNION {{g.lanes[l].tiles[t].uid : t \in TileIndices} \ {0} : l \in LaneIndices}
        \cup UNION {{g.lanes[l].minions[i] : i \in 1 .. Len(g.lanes[l].minions)} :
                       l \in LaneIndices}

\* every hero of a hero list and every minion of a tile is alive and within
\* its maximum health
AllUnitsAlive(g) ==
    \A l \in LaneIndices :
        /\ \A i \in 1 .. Len(g.lanes[l].heroes) :
               /\ 0 < g.lanes[l].heroes[i].health
               /\ g.lanes[l].heroes[i].health <= g.lanes[l].heroes[i].maxHealth
        /\ \A t \in TileIndices :
               ~IsNull(g.lanes[l].tiles[t])
                   => /\ 0 < g.lanes[l].tiles[t].health
                      /\ g.lanes[l].tiles[t].health <= g.lanes[l].tiles[t].maxHealth

\* C5: takeDamage(amount) on a unit with health H sets health to
\* max(0, H - amount), and a unit whose health reaches 0 is removed from its
\* lane's collection (and its tile, for a minion) before that call returns;
\* hence at the end of every tick every hero in a lane's hero list and
\* every minion on a tile has 0 < health <= maxHealth.
DamageClampsAndTheDeadAreRemoved ==
    [][/\ AllUnitsAlive(game)
       /\ AllUnitsAlive(game')
       /\ \A l \in LaneIndices, i \in 1 .. MaxHeroes, amount \in DamageAmounts :
              HeroDamaged(l, i, amount)
                  => LET hero == game.lanes[l].heroes[i]
                     IN  IF hero.health - amount <= 0
                         THEN /\ lastCall'.ret
                              /\ corpse'.uid = hero.uid
                              /\ corpse'.health = Max(0, hero.health - amount)
                              /\ hero.uid \notin HeroUids(game')
                              /\ Len(game'.lanes[l].heroes) = Len(game.lanes[l].heroes) - 1
                         ELSE /\ ~lastCall'.ret
                              /\ game'.lanes[l].heroes[i].uid = hero.uid
                              /\ game'.lanes[l].heroes[i].health
                                     = Max(0, hero.health - amount)
       /\ \A l \in LaneIndices, t \in TileIndices, amount \in DamageAmounts :
              MinionDamaged(l, t, amount)
                  => LET minion == game.lanes[l].tiles[t]
                     IN  IF minion.health - amount <= 0
                         THEN /\ lastCall'.ret
                              /\ minion.uid \notin MinionUids(game')
                              /\ IsNull(game'.lanes[l].tiles[t])
                         ELSE /\ ~lastCall'.ret
                              /\ game'.lanes[l].tiles[t].uid = minion.uid
                              /\ game'.lanes[l].tiles[t].health
                                     = Max(0, minion.health - amount)]_vars

\* takeDamage has killed one of two heroes of a lane: it returned true, the
\* hero it was called on has health 0 and the lane keeps the other hero
DamageClampsAndTheDeadAreRemovedWitness ==
    /\ lastCall = Called("hero.takeDamage", TRUE)
    /\ ~IsNull(corpse)
    /\ corpse.health = 0
    /\ HeroUidsOfLane(game, corpse.lane) # {}
    /\ corpse.uid \notin HeroUids(game)

\* events of a log about one hero, by kind
EventsOf(events, kind, uid) ==
    {i \in 1 .. Len(events) : events[i].ev = kind /\ events[i].hero = uid}

\* Dreadchants of a lane
Dreadchants(g, l) ==
    {t \in TileIndices : ~IsNull(g.lanes[l].tiles[t]) /\ g.lanes[l].tiles[t].type = "dreadchant"}

\* what the game holds apart from the fields of the units themselves
Containers(g) ==
    [l \in LaneIndices |->
        [tiles |-> [t \in TileIndices |-> g.lanes[l].tiles[t].uid],
         minions |-> g.lanes[l].minions,
         heroes |-> [i \in 1 .. Len(g.lanes[l].heroes) |-> g.lanes[l].heroes[i].uid]]]

\* C6: death side effects happen exactly once per hero death: the removal
\* from the lane's hero list, the single kill-reward draw and the
\* onEnemyDeath hook of each Dreadchant of the lane each run once, the hooks
\* and the draw before the hero is discarded; a hero that stays is the
\* subject of none; a further takeDamage or die on the already removed hero
\* changes neither Daen nor any container.
DeathEffectsOncePerDeath ==
    [][/\ \A l \in LaneIndices, i \in 1 .. MaxHeroes :
              i <= Len(game.lanes[l].heroes)
                  => LET uid == game.lanes[l].heroes[i].uid
                         dies == uid \notin HeroUids(game')
                         splices == EventsOf(log', "splice", uid)
                         draws == EventsOf(log', "draw", uid)
                         hooks == EventsOf(log', "hook", uid)
                     IN  IF dies
                         THEN /\ Cardinality(splices) = 1
                              /\ Cardinality(draws) = 1
                              /\ Cardinality(hooks) = Cardinality(Dreadchants(game, l))
                              /\ \A t \in Dreadchants(game, l) :
                                     Cardinality({h \in hooks :
                                         log'[h].by = game.lanes[l].tiles[t].uid}) = 1
                              /\ \A e \in draws \cup hooks, x \in splices : e < x
                         ELSE splices \cup draws \cup hooks = {}
       /\ \A e \in 1 .. Len(log') :
              log'[e].ev \in {"splice", "draw", "hook"}
                  => log'[e].hero \in HeroUids(game) \ HeroUids(game')
       /\ (CorpseDied \/ \E amount \in DamageAmounts : CorpseDamaged(amount))
              => /\ game'.daen = game.daen
                 /\ Containers(game') = Containers(game)
                 /\ log' = <<>>]_vars

\* takeDamage was called again on a hero already removed, in a lane that
\* holds a Dreadchant and another hero
DeathEffectsOncePerDeathWitness ==
    /\ lastCall = Called("corpse.takeDamage", TRUE)
    /\ ~IsNull(corpse)
    /\ Dreadchants(game, corpse.lane) # {}
    /\ HeroUidsOfLane(game, corpse.lane) # {}

\* places of a collection whose unit is within attackRange of self
InRange(self, others) ==
    {i \in 1 .. Len(others) : Abs(self.position - others[i].position) <= self.attackRange}

\* target is what findTarget must return for self against others: null iff
\* nothing is in range, else a unit in range that none is strictly closer
\* than and that comes first among the equidistant ones
NearestFirst(self, others, target) ==
    IF InRange(self, others) = {}
    THEN IsNull(target)
    ELSE \E i \in InRange(self, others) :
             /\ target = others[i]
             /\ \A j \in InRange(self, others) :
                    /\ Abs(self.position - others[j].position)
                           >= Abs(self.position - others[i].position)
                    /\ Abs(self.position - others[j].position)
                           = Abs(self.position - others[i].position) => j >= i

\* C7: for both sides, findTarget returns null iff no opposing unit of the
\* same lane is within attackRange; otherwise it returns an opposing unit
\* within range such that no other is strictly closer, and among
\* equidistant candidates the one that comes first in the lane
\* collection's order.
FindTargetIsNearestFirst ==
    \A l \in LaneIndices :
        /\ \A t \in TileIndices :
               ~IsNull(game.lanes[l].tiles[t])
                   => NearestFirst(game.lanes[l].tiles[t], game.lanes[l].heroes,
                                   MinionFindTarget(game.lanes[l].tiles[t], game.lanes[l]))
        /\ \A i \in 1 .. Len(game.lanes[l].heroes) :
               NearestFirst(game.lanes[l].heroes[i], MinionObjects(game.lanes[l]),
                            HeroFindTarget(game.lanes[l].heroes[i], game.lanes[l]))

\* a hero half a tile from two minions, the one on tile 1 placed before the
\* one on tile 0, has attacked in a tick: it hit the minion placed first
FindTargetIsNearestFirstWitness ==
    \E l \in LaneIndices :
        /\ Len(game.lanes[l].heroes) = 1
        /\ game.lanes[l].heroes[1].position = 500
        /\ Len(game.lanes[l].minions) = 2
        /\ game.lanes[l].minions[1] = game.lanes[l].tiles[1].uid
        /\ game.lanes[l].minions[2] = game.lanes[l].tiles[0].uid
        /\ game.lanes[l].tiles[1].health < game.lanes[l].tiles[1].maxHealth
        /\ game.lanes[l].tiles[0].health = game.lanes[l].tiles[0].maxHealth
        /\ HeroFindTarget(game.lanes[l].heroes[1], game.lanes[l]) = game.lanes[l].tiles[1]

\* C8: within one wave triggerOnslaught fires at most once: after it has
\* fired, no later spawn event, tick or checkForOnslaught call of the same
\* wave fires it again, even when heroesRemaining again equals 20% of the
\* enlarged wave size; a step fires it at most once and only in a wave
\* that has not had one.
OnslaughtOncePerWave ==
    [][/\ obs.onslaughts <= 1
       /\ obs'.onslaughts <= 1
       /\ Cardinality({e \in 1 .. Len(log') : log'[e].ev = "onslaught"}) <= 1
       /\ (obs.onslaughts = 1 /\ game'.waveNumber = game.waveNumber
               /\ obs'.waveCalls = obs.waveCalls)
              => /\ obs'.onslaughts = 1
                 /\ \A e \in 1 .. Len(log') : log'[e].ev # "onslaught"
                 /\ game'.heroesInWave = game.heroesInWave]_vars

\* after its onslaught a wave has gone on spawning until heroesRemaining is
\* again a fifth of the enlarged wave size, and this has not fired a second one
OnslaughtOncePerWaveWitness ==
    /\ obs.onslaughts = 1
    /\ game.onslaughtTriggered
    /\ game.heroesInWave = 3 * obs.size
    /\ game.heroesRemaining = CeilDiv(game.heroesInWave, 5)
    /\ game.spawnTimeouts = 1

\* heroesRemaining of a wave started with 15 heroes after its k-th spawn
\* event: the onslaught after the 12th adds 30
RemainingOfFifteen(k) == IF k < 12 THEN 15 - k ELSE 45 - k

\* C9, as the code has it: a wave started as wave 1 with 15 heroes and the
\* default spawn delay fires its onslaught at the 12th spawn event, when 3
\* heroes remain, and drives heroesRemaining to 0 after exactly 45 spawn
\* events.
FifteenHeroWaveEndsAfter45Spawns ==
    (game.waveNumber = 1 /\ obs.size = 15)
        => /\ game.heroesRemaining = RemainingOfFifteen(obs.spawns)
           /\ game.heroesRemaining = 0 <=> obs.spawns = 45
           /\ obs.onslaughts = (IF obs.spawns < 12 THEN 0 ELSE 1)
           /\ game.spawnDelay = (IF obs.spawns < 12 THEN 980 ELSE 500)

\* the 45th hero of the wave has been spawned and nothing remains
FifteenHeroWaveEndsAfter45SpawnsWitness ==
    /\ game.waveNumber = 1
    /\ obs.size = 15
    /\ obs.spawns = 45
    /\ game.heroesRemaining = 0
    /\ game.spawnTimeouts = 0

\* C9, as stated: a wave started as wave 1 with 15 heroes drives
\* heroesRemaining to 0 after exactly 15 spawn events.
FifteenHeroWaveEndsAfter15Spawns ==
    (game.waveNumber = 1 /\ obs.size = 15)
        => (game.heroesRemaining = 0 <=> obs.spawns = 15)

\* C10: the preparation phase begins only in a tick at whose end
\* heroesRemaining is 0 and every lane's hero list is empty and a wave has
\* been started; while isPreparingNextWave is true no hero is in any lane
\* and no spawn timer is pending.
PreparationOnlyAfterTheWave ==
    [][/\ ((~game.isPreparingNextWave /\ game'.isPreparingNextWave)
               \/ \E e \in 1 .. Len(log') : log'[e].ev = "prepare")
              => /\ \E deltaTime \in DeltaTimes : Tick(deltaTime)
                 /\ game'.heroesRemaining = 0
                 /\ ~AnyHero(game')
                 /\ game'.waveNumber > 0
                 /\ game'.isPreparingNextWave
       /\ game.isPreparingNextWave => (~AnyHero(game) /\ game.spawnTimeouts = 0)
       /\ game'.isPreparingNextWave => (~AnyHero(game') /\ game'.spawnTimeouts = 0)]_vars

\* the only hero of wave 1 was killed and the tick after it began the
\* preparation, with its bonus of 12 Daen
PreparationOnlyAfterTheWaveWitness ==
    /\ game.isPreparingNextWave
    /\ game.preparationTimer = 15000
    /\ log = <<[ev |-> "prepare", bonus |-> 12]>>
    /\ game.waveNumber = 1
    /\ obs.spawns = 1

\* the wave-clear bonuses a call credited
Prepared(events) == {e \in 1 .. Len(events) : events[e].ev = "prepare"}

\* C11: the wave-clear bonus of 10 + 2 x waveNumber Daen is credited at most
\* once per wave and exactly when that wave's preparation phase begins,
\* however many ticks evaluate the all-heroes-dead condition, and never
\* while waveNumber is 0; a wave in its preparation phase has had its bonus.
BonusOncePerClearedWave ==
    [][/\ Cardinality(Prepared(log')) <= 1
       /\ obs'.bonuses <= 1
       /\ game'.isPreparingNextWave => obs'.bonuses = 1
       /\ (~game.isPreparingNextWave /\ game'.isPreparingNextWave) <=> Prepared(log') # {}
       /\ Prepared(log') = {}
              => \/ obs'.bonuses = obs.bonuses
                 \/ obs'.bonuses = 0 /\ obs'.waveCalls + game'.waveNumber
                                            > obs.waveCalls + game.waveNumber
       /\ \A e \in Prepared(log') :
              /\ game'.waveNumber > 0
              /\ game'.waveNumber = game.waveNumber
              /\ ~AnyHero(game') /\ game'.heroesRemaining = 0
              /\ log'[e].bonus = 10 + 2 * game'.waveNumber
              /\ obs'.bonuses = obs.bonuses + 1
              /\ \E deltaTime \in DeltaTimes :
                     game'.daen = game.daen + deltaTime + Daen(log'[e].bonus)]_vars

\* the tick after the one that began the preparation of wave 1 evaluated the
\* condition again and credited nothing
BonusOncePerClearedWaveWitness ==
    /\ game.isPreparingNextWave
    /\ game.preparationTimer = 10000
    /\ game.waveNumber = 1
    /\ obs.bonuses = 1
    /\ ticks = 2
    /\ log = <<>>
    /\ game.daen = Daen(10) + 10000 + Daen(12)

\* some hero stands on the castle boundary
AtCastle(g) ==
    \E l \in LaneIndices : \E i \in 1 .. Len(g.lanes[l].heroes) :
        g.lanes[l].heroes[i].position <= 0

\* C12: in every tick that runs while the game is neither ended nor paused,
\* if after the lane updates any hero has position <= 0 then the game is
\* ended with victory = false in that same tick, whatever the scheduler
\* sub-state, and a win is not recorded in that tick or afterwards.
LossWhenAHeroReachesTheCastle ==
    [][/\ (ticks' = ticks + 1 /\ AtCastle(game'))
              => (game'.gameOver /\ game'.victory = "false")
       /\ AtCastle(game) => (game.gameOver /\ game.victory = "false")
       /\ game.victory = "false" => game'.victory = "false"]_vars

\* a hero of wave 10, the target wave, walked to the castle while the wave
\* was still spawning
LossWhenAHeroReachesTheCastleWitness ==
    /\ game.gameOver
    /\ game.victory = "false"
    /\ game.waveNumber = 10
    /\ game.heroesRemaining > 0
    /\ AtCastle(game)

NoSpawnWhilePaused ==
    [][(game.isPaused /\ obs'.waveCalls = obs.waveCalls)
          => /\ game'.heroesRemaining = game.heroesRemaining
             /\ HeroUids(game') \subseteq HeroUids(game)
             /\ game'.spawnTimeouts = game.spawnTimeouts]_vars

\* the least integer n with n >= num / den, for den > 0 and 0 <= num / den <= 500
Ceiling(num, den) == CHOOSE n \in 0 .. 500 : den * n >= num /\ den * (n - 1) < num

\* the heroes a step added to the lanes
SpawnedBy(g, h) ==
    {hero \in UNION {{h.lanes[l].heroes[i] : i \in 1 .. Len(h.lanes[l].heroes)} :
                        l \in LaneIndices} : hero.uid \notin HeroUids(g)}

\* C15, as the code has it: a hero spawned in wave w of 1 .. TargetWave has
\* health = maxHealth and damage equal to ceil(base x (1 + (w-1) x 0.05)),
\* and on the boss waves (w % 5 = 0) the ceiling of 1.5 times that integer:
\* the ceiling is taken after the wave scaling and again after the boss
\* factor.
SpawnedStatsAreCeiledTwice ==
    [][\A hero \in SpawnedBy(game, game') :
          LET w == game'.waveNumber
              base == HeroStats(hero.type)
              health == Ceiling(base.health * (100 + (w - 1) * 5), 100)
              damage == Ceiling(base.damage * (100 + (w - 1) * 5), 100)
          IN  /\ w \in 1 .. TargetWave
              /\ hero.maxHealth = hero.health
              /\ hero.health = IF w % 5 = 0 THEN Ceiling(health * 3, 2) ELSE health
              /\ hero.damage = IF w % 5 = 0 THEN Ceiling(damage * 3, 2) ELSE damage]_vars

\* a Militiant of wave 10: damage ceil(ceil(14.5) x 1.5) = 23, and an
\* Ashbolt Scout of wave 10: health ceil(ceil(72.5) x 1.5) = 110
SpawnedStatsAreCeiledTwiceWitness ==
    /\ game.waveNumber = 10
    /\ \E l, k \in LaneIndices :
           /\ Len(game.lanes[l].heroes) > 0
           /\ Len(game.lanes[k].heroes) > 0
           /\ LET militiant == game.lanes[l].heroes[1]
                  scout == game.lanes[k].heroes[Len(game.lanes[k].heroes)]
              IN  /\ militiant.type = "militiant"
                  /\ militiant.health = 174 /\ militiant.damage = 23
                  /\ scout.type = "ashboltscout"
                  /\ scout.health = 110 /\ scout.damage = 18

\* C15, as stated: health = maxHealth and damage equal
\* ceil(base x (1 + (w-1) x 0.05) x b), b = 1.5 on boss waves and 1
\* otherwise, the ceiling taken once, after all scaling.
SpawnedStatsAreCeiledOnce ==
    [][\A hero \in SpawnedBy(game, game') :
          LET w == game'.waveNumber
              base == HeroStats(hero.type)
              b == IF w % 5 = 0 THEN 3 ELSE 2
          IN  /\ hero.maxHealth = hero.health
              /\ hero.health = Ceiling(base.health * (100 + (w - 1) * 5) * b, 200)
              /\ hero.damage = Ceiling(base.damage * (100 + (w - 1) * 5) * b, 200)]_vars

\* the units in the lanes: the minions on tiles and the heroes
Units(g) ==
    UNION {{g.lanes[l].tiles[t] : t \in {t \in TileIndices : ~IsNull(g.lanes[l].tiles[t])}}
               \cup {g.lanes[l].heroes[i] : i \in 1 .. Len(g.lanes[l].heroes)} :
           l \in LaneIndices}

\* C16: a unit calls attack only in a tick, with a target within its
\* attackRange and its attackCooldown, after the tick's decrement, <= 0;
\* right after the tick its attackCooldown is 1000 / attackSpeed ms, and two
\* attacks by the same unit are at least that much tick time apart.
AttacksAreGatedByTheCooldown ==
    [][\A r \in obs'.attacked \ obs.attacked :
          /\ ticks' = ticks + 1
          /\ r.at = obs'.clock
          /\ r.cooldown <= 0
          /\ \A u \in Units(game') :
                 u.uid = r.uid => /\ r.distance <= u.attackRange
                                  /\ u.attackCooldown = AttackInterval(u)
                                  /\ r.interval = AttackInterval(u)
          /\ \A q \in obs.attacked :
                 q.uid = r.uid => Thirds(r.at - q.at) >= q.interval]_vars

\* an Ashling (1000 / 1.2 ms between attacks) attacked, sat out a tick of
\* 500 ms with 333 ms left, and attacked again in the next, 1000 ms after
\* its first attack
AttacksAreGatedByTheCooldownWitness ==
    \E r \in obs.attacked :
        /\ r.uid < 100
        /\ r.at = obs.clock
        /\ r.cooldown = -500
        /\ r.interval = 2500
        /\ ticks >= 3

\* C17: the attackCooldown of every unit is >= 0 in every reachable state.
CooldownIsNeverNegative == \A u \in Units(game) : u.attackCooldown >= 0

\* C18: a placed Daemon Altar credits +1 Daen every 4 s of accumulated tick
\* time: whenever its pulse timer reaches 4000 ms within a tick it credits
\* once and the timer restarts, so after a tick the timer is below 4000 ms
\* and the tick has credited the pulse on top of the passive income; and
\* the altar never attacks.
AltarPulsesEveryFourSeconds ==
    [][\A l \in LaneIndices, t \in TileIndices :
          (/\ ticks' = ticks + 1
           /\ ~IsNull(game.lanes[l].tiles[t])
           /\ game.lanes[l].tiles[t].type = "daemonaltar"
           /\ game'.lanes[l].tiles[t] # NullUnit)
              => /\ game'.lanes[l].tiles[t].pulseTimer < 4000
                 /\ game.lanes[l].tiles[t].pulseTimer + (obs'.clock - obs.clock) >= 4000
                        => /\ game'.lanes[l].tiles[t].pulseTimer = 0
                           /\ game'.daen >= game.daen + (obs'.clock - obs.clock) + Daen(1)
                 /\ \A r \in obs'.attacked : r.uid # game.lanes[l].tiles[t].uid]_vars

\* the callbacks registered with once
OnceCallbacks(es) == {c \in 1 .. Len(es.callbacks) : es.callbacks[c].once}

\* a callback registered with once is invoked at most once, and once it was
\* invoked it has no listener
OnceCallbackRunsAtMostOnce ==
    \A c \in OnceCallbacks(GameEvents) :
        /\ GameEvents.callbacks[c].invoked <= 1
        /\ GameEvents.callbacks[c].invoked = 1 => ~Listening(GameEvents, c)

\* C19: a callback registered with once(type, cb) is invoked at most once
\* over any sequence of emits, by the first emit of that type made while it
\* is still subscribed, also when the callback emits the same event itself,
\* and it is no longer registered afterwards.
OnceCallbackRunsOnTheFirstEmit ==
    /\ OnceCallbackRunsAtMostOnce
    /\ \A c \in OnceCallbacks(GameEvents) :
           GameEvents.callbacks[c].heard >= 1 => GameEvents.callbacks[c].invoked = 1

\* C20: no hero exists and waveNumber stays 0 until the unpaused tick time
\* accumulated since the game started reaches waveInterval (30000 ms); the
\* tick in which it does starts the first wave: waveNumber becomes 1 and
\* the first hero is spawned.
FirstWaveAfterTheWaveInterval ==
    [][/\ obs.clock < NewGame.waveInterval
              => (game.waveNumber = 0 /\ ~AnyHero(game) /\ obs.spawns = 0)
       /\ (obs.clock < NewGame.waveInterval /\ obs'.clock >= NewGame.waveInterval)
              => /\ ticks' = ticks + 1
                 /\ game'.waveNumber = 1
                 /\ obs'.spawns = 1
                 /\ AnyHero(game')]_vars

\* the third tick of 10000 ms has started wave 1 and spawned its first hero
FirstWaveAfterTheWaveIntervalWitness ==
    /\ obs.clock = 30000
    /\ ticks = 3
    /\ game.waveNumber = 1
    /\ obs.spawns = 1
    /\ AnyHero(game)

\* C21: once a preparation has begun and the game has not ended, the next
\* wave starts (waveNumber + 1, first hero spawned) in the first running
\* tick at which 15000 ms of tick time have passed since the preparation
\* began, and not before; and while the frames keep coming every
\* preparation is followed by that wave unless the game is paused.
PreparationEndsInTheNextWave ==
    /\ [][(game.isPreparingNextWave /\ ~game.gameOver)
              => IF obs'.clock > obs.clock /\ obs'.clock - obs.preparedAt >= 15000
                 THEN /\ game'.waveNumber = game.waveNumber + 1
                      /\ ~game'.isPreparingNextWave
                      /\ obs'.spawns = 1
                      /\ AnyHero(game')
                 ELSE /\ game'.isPreparingNextWave
                      /\ game'.waveNumber = game.waveNumber
                      /\ ~AnyHero(game')]_vars
    /\ (game.isPreparingNextWave /\ ~game.gameOver)
           ~> (~game.isPreparingNextWave \/ game.isPaused)

\* wave 2 was started 15000 ms after the preparation that followed wave 1
\* began, by the third tick of 5000 ms
PreparationEndsInTheNextWaveWitness ==
    /\ game.waveNumber = 2
    /\ obs.spawns = 1
    /\ obs.clock = 20000
    /\ ticks = 4
    /\ game.heroesInWave = 20

\* C22: when the onslaught fires it is right after a spawn that left
\* heroesRemaining equal to ceil(20% of heroesInWave); it adds
\* ceil(heroesInWave x 2) to heroesInWave and to heroesRemaining, so that
\* heroesInWave becomes three times the wave's original size and
\* heroesRemaining the threshold plus twice the original size.
OnslaughtAtTheThresholdTriplesTheWave ==
    [][obs'.onslaughts > obs.onslaughts
          => LET original == obs'.size
                 onslaughtThreshold == Ceiling(original, 5)
             IN  /\ obs'.spawns = obs.spawns + 1
                 /\ game.heroesInWave = original
                 /\ game.heroesRemaining - 1 = onslaughtThreshold
                 /\ game'.heroesInWave = game.heroesInWave + Ceiling(game.heroesInWave * 2, 1)
                 /\ game'.heroesRemaining =
                        game.heroesRemaining - 1 + Ceiling(game.heroesInWave * 2, 1)
                 /\ game'.heroesInWave = 3 * original
                 /\ game'.heroesRemaining = onslaughtThreshold + 2 * original
                 /\ obs'.onslaughts = 1]_vars

\* the boss wave 5, 52 heroes, after its 41st spawn: 11 were left, the
\* onslaught made the wave 156 and left 115 to spawn
OnslaughtAtTheThresholdTriplesTheWaveWitness ==
    /\ game.waveNumber = 5
    /\ obs.onslaughts = 1
    /\ obs.spawns = 41
    /\ game.heroesInWave = 156
    /\ game.heroesRemaining = 115

\* C23: when the onslaught fires, the spawn delay becomes strictly shorter
\* than the delay in force just before it, and shorter on a boss wave (400)
\* than on a non-boss wave (500), in every wave of a match.
OnslaughtShortensTheSpawnDelay ==
    [][obs'.onslaughts > obs.onslaughts
          => /\ game'.spawnDelay < game.spawnDelay
             /\ game.bossWave = (game.waveNumber % 5 = 0)
             /\ game'.spawnDelay = (IF game.bossWave THEN 400 ELSE 500)
             /\ game.spawnDelay = (IF game.bossWave THEN 700
                                                   ELSE 1000 - game.waveNumber * 20)]_vars

\* the boss wave 10 after its 72nd spawn: the delay went from 700 to 400
OnslaughtShortensTheSpawnDelayWitness ==
    /\ game.waveNumber = 10
    /\ game.bossWave
    /\ obs.onslaughts = 1
    /\ obs.spawns = 72
    /\ game.spawnDelay = 400

\* C24: a wave w started without overrides has heroesInWave = heroesRemaining
\* = 10 + 5w, times 1.5 with the fraction dropped when w % 5 = 0; bossWave
\* is true exactly when w % 5 = 0, and both onslaught flags are false again.
\* The step also spawns the wave's first hero, which takes one off
\* heroesRemaining.
WaveStartsWithItsHeroCount ==
    [][(game'.waveNumber # game.waveNumber /\ obs'.waveCalls = obs.waveCalls)
          => LET w == game'.waveNumber
                 count == IF w % 5 = 0 THEN ((10 + 5 * w) * 3) \div 2 ELSE 10 + 5 * w
             IN  /\ obs'.size = count
                 /\ game'.heroesInWave = count
                 /\ game'.heroesRemaining = count - 1
                 /\ obs'.spawns = 1
                 /\ game'.bossWave = (w % 5 = 0)
                 /\ ~game'.onslaughtTriggered
                 /\ ~game'.onslaughtComplete]_vars

\* wave 5 started by update() after the preparation that followed wave 4 and
\* its onslaught: 52 heroes, a boss wave
WaveStartsWithItsHeroCountWitness ==
    /\ game.waveNumber = 5
    /\ obs.waveCalls = 1
    /\ obs.size = 52
    /\ game.heroesInWave = 52
    /\ game.heroesRemaining = 51
    /\ game.bossWave
    /\ ~game.onslaughtComplete

\* the spawn delay the formula of startWave gives wave w
FormulaDelay(w) == Max(300, 1000 - 20 * w)

\* C25, as stated: at the start of wave w the spawn delay is
\* max(300, 1000 - 20w) ms on a non-boss wave, and on a boss wave one fixed
\* value that is larger than the formula value for that wave.
BossWaveSpawnsSlower ==
    [][game'.waveNumber # game.waveNumber
          => IF game'.bossWave
             THEN game'.spawnDelay > FormulaDelay(game'.waveNumber)
             ELSE game'.spawnDelay = FormulaDelay(game'.waveNumber)]_vars

\* C25: at the start of wave w the spawn delay is max(300, 1000 - 20w) ms on
\* a non-boss wave; on a boss wave it is 700 ms, which on the boss waves of a
\* match, 5 and 10, is smaller than the formula value of that wave.
BossWaveSpawnsFaster ==
    [][game'.waveNumber # game.waveNumber
          => /\ game'.bossWave = (game'.waveNumber % 5 = 0)
             /\ IF game'.bossWave
                THEN /\ game'.spawnDelay = 700
                     /\ game'.spawnDelay < FormulaDelay(game'.waveNumber)
                ELSE game'.spawnDelay = FormulaDelay(game'.waveNumber)]_vars

\* wave 5 as spawnWave left it: a boss wave spawning every 700 ms, where the
\* formula gives 900
BossWaveSpawnsFasterWitness ==
    /\ game.waveNumber = 5
    /\ game.bossWave
    /\ obs.spawns = 1
    /\ game.spawnDelay = 700
    /\ FormulaDelay(game.waveNumber) = 900

\* C26: the unforced hero type is gated by the wave number: every hero
\* spawned in waves 1 to 4 is a Militiant, an AshboltScout is spawned only
\* from wave 5 and an Oathblade only from wave 10; from wave 10 a roll above
\* 0.7 gives an Oathblade, a roll in (0.5, 0.7] an AshboltScout, any other a
\* Militiant, and from wave 5 to 9 a roll above 0.5 gives an AshboltScout.
\* Rolls are in thousandths; the rolls compared are the ends of the range and
\* the two thresholds with their successors.
HeroTypeIsGatedByTheWave ==
    [][/\ \A hero \in SpawnedBy(game, game') :
              LET w == game'.waveNumber
              IN  /\ w < 5 => hero.type = "militiant"
                  /\ hero.type = "ashboltscout" => w >= 5
                  /\ hero.type = "oathblade" => w >= 10
                  /\ hero.type \in {HeroTypeFor(w, roll) : roll \in TypeDraws}
       /\ \A w \in 1 .. TargetWave, roll \in {0, 500, 501, 700, 701, 999} :
              HeroTypeFor(w, roll) =
                  IF w >= 10 /\ roll > 700 THEN "oathblade"
                  ELSE IF w >= 10 /\ roll > 500 /\ roll <= 700 THEN "ashboltscout"
                  ELSE IF w >= 5 /\ w < 10 /\ roll > 500 THEN "ashboltscout"
                  ELSE "militiant"]_vars

\* wave 10 spawned an Oathblade as its first hero
HeroTypeIsGatedByTheWaveWitness ==
    /\ game.waveNumber = 10
    /\ obs.spawns = 1
    /\ \E hero \in Units(game) : hero.type = "oathblade"

\* C27: within a match waveNumber starts at 0 and never decreases, and a
\* wave started without an override (by update(): at the end of a
\* preparation, or by the wave timer while no wave has been sized) adds
\* exactly 1 to it.
WaveNumberGrowsByOne ==
    /\ game.waveNumber = 0
    /\ [][/\ game'.waveNumber >= game.waveNumber
          /\ (/\ obs'.waveCalls = obs.waveCalls
              /\ \/ game.isPreparingNextWave /\ ~game'.isPreparingNextWave
                 \/ game.heroesInWave = 0 /\ game'.heroesInWave # 0)
                => game'.waveNumber = game.waveNumber + 1
          /\ obs'.waveCalls = obs.waveCalls
                => game'.waveNumber \in {game.waveNumber, game.waveNumber + 1}]_vars

\* wave 10, started by update() at the end of the preparation after wave 9
WaveNumberGrowsByOneWitness ==
    /\ game.waveNumber = 10
    /\ obs.waveCalls = 1
    /\ obs.spawns = 1
    /\ ~game.isPreparingNextWave
    /\ ticks >= 3

\* C28: update(deltaTime) called on a game that is over or paused changes
\* nothing: Daen, the wave and preparation timers, the wave counters, and
\* the position, health and cooldown of every unit are as they were; so a
\* game that is over stays over, with the same outcome, under ticks and
\* spawn timers.
UpdateIgnoredWhenOverOrPaused ==
    /\ []((game.gameOver \/ game.isPaused)
            => \A deltaTime \in {1000, 15000, 20000}, rolls \in Rolls :
                   LET cx == Cx(Zeros(HeroCount(game) + 1))
                   IN  Update(cx, deltaTime, rolls) = cx)
    /\ [][(game.gameOver /\ calls' = calls)
              => game'.gameOver /\ game'.victory = game.victory]_vars

\* a paused game after two updates, with a minion that has attacked and is on
\* its cooldown and a hero in its lane
UpdateIgnoredWhenOverOrPausedWitness ==
    /\ game.isPaused
    /\ ~game.gameOver
    /\ ticks >= 2
    /\ game.waveTimer = 0
    /\ AnyHero(game)
    /\ \E l \in LaneIndices, t \in TileIndices :
           /\ ~IsNull(game.lanes[l].tiles[t])
           /\ game.lanes[l].tiles[t].attackCooldown > 0

\* the minions of the lane a hero stands in that are within its attackRange
MinionsInRange(g, hero) ==
    InRange(hero, MinionObjects(g.lanes[hero.lane]))

\* the positions of the minions of g, by uid
MinionPositions(g) ==
    UNION {{<<g.lanes[l].tiles[t].uid, g.lanes[l].tiles[t].position>> :
                t \in {t \in TileIndices : ~IsNull(g.lanes[l].tiles[t])}} :
           l \in LaneIndices}

\* C29: a hero that updates moves iff no minion of its lane is within its
\* attackRange at that moment, and then by moveSpeed x deltaTime / 1000
\* toward the boundary, its position kept within [0, tileCount - 1]; it
\* never both attacks and moves, stands still while a minion is in range
\* even when its cooldown keeps it from attacking, its position never
\* increases, and no minion changes position.  Stated of Hero.update applied
\* in every reachable state, and of every step.
HeroWalksOnlyWithNoMinionInRange ==
    /\ [](\A l \in LaneIndices, deltaTime \in {500, 1000, 20000} :
             \A i \in 1 .. Len(game.lanes[l].heroes) :
                 LET hero == game.lanes[l].heroes[i]
                     cx == [Cx(Zeros(1)) EXCEPT !.obs.clock = @ + deltaTime]
                     after == HeroUpdate(cx, hero, deltaTime)
                     updated == after.game.lanes[l].heroes[i]
                     attacks == \E r \in after.obs.attacked :
                                    r.uid = hero.uid /\ r.at = cx.obs.clock
                 IN  /\ updated.uid = hero.uid
                     /\ IF MinionsInRange(game, hero) = {}
                        THEN /\ updated.position =
                                   Max(0, Min(Tiles(TileCount - 1),
                                              hero.position
                                                  - (hero.moveSpeed * deltaTime) \div 1000))
                             /\ ~attacks
                        ELSE updated.position = hero.position
                     /\ updated.position <= hero.position
                     /\ updated.position >= 0
                     /\ MinionPositions(after.game) \subseteq MinionPositions(game))
    /\ [][/\ \A l \in LaneIndices :
                \A i \in 1 .. Len(game.lanes[l].heroes), j \in 1 .. Len(game'.lanes[l].heroes) :
                    LET hero == game.lanes[l].heroes[i]
                        later == game'.lanes[l].heroes[j]
                    IN  later.uid = hero.uid
                            => /\ later.position <= hero.position
                               /\ later.position # hero.position
                                     => /\ ticks' = ticks + 1
                                        /\ \A r \in obs'.attacked \ obs.attacked :
                                               r.uid # hero.uid
          /\ \A before \in MinionPositions(game), now \in MinionPositions(game') :
                now[1] = before[1] => now[2] = before[2]]_vars

\* a hero two tiles from the castle, one tile from an Ashling on tile 1, that
\* attacked in one tick and in the next, its cooldown still running, stood
\* where it was
HeroWalksOnlyWithNoMinionInRangeWitness ==
    /\ ticks >= 2
    /\ \E i \in 1 .. Len(game.lanes[0].heroes) :
           LET hero == game.lanes[0].heroes[i]
           IN  /\ hero.position = Tiles(TileCount - 1)
               /\ hero.attackCooldown > 0
               /\ MinionsInRange(game, hero) # {}
               /\ \E r \in obs.attacked : r.uid = hero.uid /\ r.at < obs.clock

\* heroes carry baseAttackSpeed, minions do not
IsHero(unit) == "baseAttackSpeed" \in DOMAIN unit

\* a is on the other side of u and fights in the lane u is in
OpposingInLane(a, u) == a.lane = u.lane /\ IsHero(a) # IsHero(u)

\* some unit opposing u in its lane called attack in the step, within its
\* attackRange of its target; or a minion that had u within its attackRange
\* was itself killed later in the step (its attack is then no longer on
\* record: minions update before heroes, and neither has moved in between)
AttackedInLane(u) ==
    \/ \E r \in obs'.attacked \ obs.attacked :
           \E a \in Units(game) \cup Units(game') :
               /\ a.uid = r.uid
               /\ OpposingInLane(a, u)
               /\ r.distance <= a.attackRange
    \/ \E a \in Units(game) :
           /\ ~IsHero(a)
           /\ OpposingInLane(a, u)
           /\ CanAttack(a, u)
           /\ \A v \in Units(game') : v.uid # a.uid

\* C30: a unit loses health, or is removed by a tick, only when an opposing
\* unit of its own lane attacked in that tick with its target within its
\* attackRange; Unit.attack on a target out of range returns false and
\* changes nothing; and a lane in which no unit attacked keeps the health of
\* all its units.  A hero that reaches the castle boundary ends the game and
\* stays in its lane.
HealthFallsOnlyToAnAttackInTheLane ==
    /\ [][\A u \in Units(game) :
              /\ \A v \in Units(game') :
                     (v.uid = u.uid /\ v.health < u.health)
                         => ticks' = ticks + 1 /\ AttackedInLane(u)
              /\ (calls' = calls /\ \A v \in Units(game') : v.uid # u.uid)
                     => ticks' = ticks + 1 /\ AttackedInLane(u)]_vars
    /\ [](\A self \in Units(game), target \in Units(game) :
             (IsHero(self) # IsHero(target) /\ ~CanAttack(self, target))
                 => LET cx == Cx(Zeros(1))
                    IN  Attack(cx, self, target) = [cx |-> cx, ret |-> FALSE])

\* a minion of lane 0 has attacked in the last tick and has lost health, a
\* hero is gone, and a hero of lane 1 that stands within the minion's
\* attackRange is at full health
HealthFallsOnlyToAnAttackInTheLaneWitness ==
    /\ obs.spawns > HeroCount(game)
    /\ \E self \in Units(game), target \in Units(game) :
           /\ self.lane = 1 /\ target.lane = 0
           /\ IsHero(self) /\ ~IsHero(target)
           /\ CanAttack(target, self)
           /\ self.health = self.maxHealth /\ target.health < target.maxHealth
           /\ \E r \in obs.attacked : r.uid = target.uid /\ r.at = obs.clock

\* minion objects on the tiles of a lane
MinionsOnTiles(g, l) ==
    {g.lanes[l].tiles[t] : t \in {t \in DOMAIN g.lanes[l].tiles : ~IsNull(g.lanes[l].tiles[t])}}

\* Dreadchants of the hero's lane within 3 tiles of the hero
ChantsWithin(g, hero) ==
    {m \in MinionsOnTiles(g, hero.lane) :
        m.type = "dreadchant" /\ Abs(m.position - hero.position) <= Tiles(3)}

\* places of a log where a minion's hook credited Daen for a hero
Credits(events, by, uid) ==
    {i \in 1 .. Len(events) :
        /\ events[i].ev = "hook" /\ events[i].credit # 0
        /\ events[i].by = by /\ events[i].hero = uid}

\* C31: when a hero dies in a lane, every Dreadchant of that lane whose
\* distance to the hero is at most 3 tiles credits exactly 3 Daen, once;
\* Dreadchants farther away or in other lanes, and minions of every other
\* type, credit nothing through the hook: apart from the kill-reward draw
\* Daen rises by 3 per Dreadchant in range and by nothing else.
DreadchantCreditsWithinThreeTiles ==
    [][/\ \A l \in LaneIndices, i \in 1 .. MaxHeroes :
              (HeroDied(l, i) /\ i <= Len(game.lanes[l].heroes))
                  => LET hero == game.lanes[l].heroes[i]
                         near == ChantsWithin(game, hero)
                     IN  /\ \A m \in near :
                                /\ Cardinality(Credits(log', m.uid, hero.uid)) = 1
                                /\ \A e \in Credits(log', m.uid, hero.uid) :
                                       log'[e].credit = 3
                         /\ \A k \in LaneIndices : \A m \in MinionsOnTiles(game, k) :
                                m \notin near => Credits(log', m.uid, hero.uid) = {}
                         /\ game'.daen - game.daen - Daen(3) * Cardinality(near)
                                \in {0, Daen(1)}
       /\ \A e \in 1 .. Len(log') :
              (log'[e].ev = "hook" /\ log'[e].credit # 0)
                  => /\ log'[e].credit = 3
                     /\ log'[e].hero \in HeroUids(game) \ HeroUids(game')
                     /\ \E l \in LaneIndices :
                            /\ log'[e].hero \in HeroUidsOfLane(game, l)
                            /\ \E m \in MinionsOnTiles(game, l) :
                                   m.uid = log'[e].by /\ m.type = "dreadchant"
                     /\ Cardinality(Credits(log', log'[e].by, log'[e].hero)) = 1]_vars

\* a hero has died on the last tile of a long lane that holds a Dreadchant
\* on tile 1, exactly 3 tiles away, which credited 3 Daen, and a Dreadchant
\* on tile 0, 4 tiles away, which credited nothing
DreadchantCreditsWithinThreeTilesWitness ==
    /\ ~IsNull(corpse)
    /\ corpse.uid \notin HeroUids(game)
    /\ corpse.position = Tiles(4)
    /\ LET ln == game.lanes[corpse.lane]
       IN  /\ ~IsNull(ln.tiles[0]) /\ ln.tiles[0].type = "dreadchant"
           /\ ~IsNull(ln.tiles[1]) /\ ln.tiles[1].type = "dreadchant"
           /\ Credits(log, ln.tiles[1].uid, corpse.uid) # {}
           /\ Credits(log, ln.tiles[0].uid, corpse.uid) = {}
           /\ \E e \in 1 .. Len(log) :
                  log[e].ev = "hook" /\ log[e].by = ln.tiles[0].uid /\ log[e].credit = 0

\* Oathblades of a game
Oathblades(g) == {u \in Units(g) : IsHero(u) /\ u.type = "oathblade"}

\* speed is baseAttackSpeed x (2 - health / maxHealth), in the thousandths
\* of an attack per second attack speeds are held in
IsRageSpeed(hero, speed) ==
    /\ speed * hero.maxHealth <= hero.baseAttackSpeed * (2 * hero.maxHealth - hero.health)
    /\ (speed + 1) * hero.maxHealth > hero.baseAttackSpeed * (2 * hero.maxHealth - hero.health)

\* C32: at every update an Oathblade's attackSpeed equals baseAttackSpeed x
\* (2 - health / maxHealth): it is the base at full health, rises linearly
\* toward twice the base as health falls, always lies between the base and
\* twice the base, and never decreases while the hero only loses health.
OathbladeSpeedsUpAsHealthFalls ==
    /\ [](\A hero \in Oathblades(game) :
             /\ IsRageSpeed(hero, Enraged(hero).attackSpeed)
             /\ hero.health = hero.maxHealth
                    => Enraged(hero).attackSpeed = hero.baseAttackSpeed
             /\ Enraged(hero).attackSpeed >= hero.baseAttackSpeed
             /\ Enraged(hero).attackSpeed <= 2 * hero.baseAttackSpeed
             /\ hero.attackSpeed >= hero.baseAttackSpeed
             /\ hero.attackSpeed <= 2 * hero.baseAttackSpeed
             /\ \A health \in 0 .. hero.health :
                    Enraged([hero EXCEPT !.health = health]).attackSpeed
                        >= Enraged(hero).attackSpeed)
    /\ [][\A after \in Oathblades(game') :
              /\ ticks' = ticks + 1 => IsRageSpeed(after, after.attackSpeed)
              /\ \A before \in Oathblades(game) :
                     (before.uid = after.uid /\ after.health <= before.health)
                         => after.attackSpeed >= before.attackSpeed]_vars

\* an Oathblade that has lost health has been updated: it attacks faster
\* than its base speed, at the speed its health gives
OathbladeSpeedsUpAsHealthFallsWitness ==
    \E hero \in Oathblades(game) :
        /\ ticks > 0
        /\ hero.health < hero.maxHealth
        /\ hero.attackSpeed > hero.baseAttackSpeed
        /\ hero.attackSpeed < 2 * hero.baseAttackSpeed
        /\ IsRageSpeed(hero, hero.attackSpeed)

\* C33: victory is never declared while the current wave still has heroes
\* left to spawn: whenever the game becomes ended with victory = true,
\* heroesRemaining is 0.
VictoryOnlyAfterTheLastSpawn ==
    [][(game.victory # "true" /\ game'.victory = "true") => game'.heroesRemaining = 0]_vars

\* C34: once the game has ended no hero is added to any lane, and
\* heroesRemaining, heroesInWave, the onslaught flags, waveNumber and Daen
\* no longer change, not even through the spawn timers that were pending
\* when the game ended.
NothingSpawnsAfterTheEnd ==
    [][game.gameOver
          => /\ HeroUids(game') \subseteq HeroUids(game)
             /\ game'.heroesRemaining = game.heroesRemaining
             /\ game'.heroesInWave = game.heroesInWave
             /\ game'.onslaughtTriggered = game.onslaughtTriggered
             /\ game'.onslaughtComplete = game.onslaughtComplete
             /\ game'.waveNumber = game.waveNumber
             /\ game'.daen = game.daen]_vars

\* C40: restart() returns the match to the state of a fresh game: Daen 10,
\* empty lanes, waveNumber 0, game not over, and no wave in progress
\* (heroesInWave = heroesRemaining = 0, not preparing, onslaught flags false,
\* no pending spawn); consequently its wave timer runs from 0 with the
\* first wave 30000 ms of ticks away.
RestartReturnsAFreshGame ==
    [][lastCall' = Called("restart", FALSE)
          => /\ game'.daen = NewGame.daen
             /\ game'.lanes = NewGame.lanes
             /\ game'.waveNumber = 0
             /\ ~game'.gameOver
             /\ game'.heroesInWave = 0
             /\ game'.heroesRemaining = 0
             /\ ~game'.isPreparingNextWave
             /\ ~game'.onslaughtTriggered
             /\ ~game'.onslaughtComplete
             /\ game'.spawnTimeouts = 0
             /\ game'.waveTimer = 0
             /\ game'.waveInterval = NewGame.waveInterval]_vars

\* C35: at any moment at most one spawnNextHero timer is pending, one is
\* pending only while heroesRemaining > 0, and update() never starts a new
\* wave while a spawn of the previous wave is still pending.
OneSpawnTimerAtATime ==
    /\ [](/\ game.spawnTimeouts \in {0, 1}
          /\ game.spawnTimeouts = 1 => game.heroesRemaining > 0)
    /\ [][(ticks' = ticks + 1 /\ game'.waveNumber # game.waveNumber)
              => /\ game.spawnTimeouts = 0
                 /\ game.heroesRemaining = 0]_vars

\* the wave update() started after the six spawns of a wave with an
\* onslaught is spawning: its first hero is in, its second spawn is pending
OneSpawnTimerAtATimeWitness ==
    /\ game.waveNumber \in {2, 5, 10}
    /\ obs.spawns = 1
    /\ game.spawnTimeouts = 1
    /\ game.heroesRemaining = game.heroesInWave - 1

\* a spawn timer fired and spawned
TimerSpawned ==
    /\ game.spawnTimeouts > 0
    /\ ticks' = ticks /\ calls' = calls
    /\ obs'.spawns = obs.spawns + 1

\* the step added exactly one hero, to exactly one lane, whose index is the
\* hero's lane field, and left the heroes that were there as they were
OneHeroInOneLane ==
    \E l \in LaneIndices :
        /\ Len(game'.lanes[l].heroes) = Len(game.lanes[l].heroes) + 1
        /\ SubSeq(game'.lanes[l].heroes, 1, Len(game.lanes[l].heroes)) = game.lanes[l].heroes
        /\ game'.lanes[l].heroes[Len(game'.lanes[l].heroes)].lane = l
        /\ game'.lanes[l].heroes[Len(game'.lanes[l].heroes)].uid \notin HeroUids(game)
        /\ \A k \in LaneIndices \ {l} : game'.lanes[k].heroes = game.lanes[k].heroes

\* the counters never leave 0 .. heroesInWave, and the heroes spawned in
\* the wave are the ones heroesRemaining no longer counts
SpawnCountersAgree ==
    /\ game.heroesRemaining >= 0
    /\ game.heroesRemaining <= game.heroesInWave
    /\ game.waveNumber > 0 => obs.spawns = game.heroesInWave - game.heroesRemaining

\* C36, as stated: 0 <= heroesRemaining <= heroesInWave in every state,
\* the heroes spawned so far in a wave number heroesInWave -
\* heroesRemaining, and each spawn event adds exactly one hero to exactly
\* one lane, the lane of its lane field, and leaves heroesRemaining exactly
\* 1 lower than it was.
EachSpawnLowersRemainingByOne ==
    /\ []SpawnCountersAgree
    /\ [][/\ TimerSpawned
              => OneHeroInOneLane /\ game'.heroesRemaining = game.heroesRemaining - 1
          /\ obs'.waveCalls # obs.waveCalls
              => OneHeroInOneLane /\ game'.heroesRemaining = game'.heroesInWave - 1]_vars

\* C36, as the code has it: 0 <= heroesRemaining <= heroesInWave in every
\* state, the heroes spawned so far in a wave number heroesInWave -
\* heroesRemaining, and each spawn event adds exactly one hero to exactly
\* one lane, the lane of its lane field, and counts it: heroesRemaining is
\* decremented by 1, and the spawn that brings it to ceil(0.2 x
\* heroesInWave) then adds the onslaught's 2 x heroesInWave heroes to both
\* counters, so heroesInWave - heroesRemaining always rises by exactly 1.
EachSpawnIsCountedOnce ==
    /\ []SpawnCountersAgree
    /\ [][/\ TimerSpawned
              => /\ OneHeroInOneLane
                 /\ game'.heroesInWave - game'.heroesRemaining
                        = game.heroesInWave - game.heroesRemaining + 1
                 /\ IF obs'.onslaughts = obs.onslaughts
                    THEN /\ game'.heroesInWave = game.heroesInWave
                         /\ game'.heroesRemaining = game.heroesRemaining - 1
                    ELSE /\ game'.heroesInWave = 3 * game.heroesInWave
                         /\ game'.heroesRemaining
                                = game.heroesRemaining - 1 + 2 * game.heroesInWave
          /\ obs'.waveCalls # obs.waveCalls
              => /\ OneHeroInOneLane
                 /\ game'.heroesRemaining = game'.heroesInWave - 1]_vars

\* the twelfth spawn of the 15-hero wave brought heroesRemaining from 4 to
\* its threshold 3 and the onslaught raised it to 33 of 45
EachSpawnIsCountedOnceWitness ==
    /\ obs.spawns = 12
    /\ obs.onslaughts = 1
    /\ game.heroesInWave = 45
    /\ game.heroesRemaining = 33
    /\ game.spawnTimeouts = 1

\* C37: in a match driven by ticks, spawn timers and placements waveNumber
\* never exceeds the win target 10: the tick that finds wave 10 with no
\* hero in any lane ends the game, a hero at the castle ends it earlier,
\* and an ended game starts no wave, so no 11th wave can start.
NoWaveBeyondTheTarget ==
    /\ [](game.waveNumber <= TargetWave)
    /\ [][/\ (game.waveNumber = TargetWave /\ ticks' = ticks + 1 /\ ~AnyHero(game'))
                  => game'.gameOver
          /\ (calls' = calls /\ game.gameOver) => game'.waveNumber = game.waveNumber
          /\ (calls' = calls /\ game.waveNumber = TargetWave)
                  => game'.waveNumber = TargetWave]_vars

\* the only hero of wave 10 was killed; the tick that found the lanes empty
\* began the preparation of an 11th wave and ended the game with a victory
NoWaveBeyondTheTargetWitness ==
    /\ game.waveNumber = TargetWave
    /\ game.heroesRemaining = 0
    /\ ~AnyHero(game)
    /\ game.isPreparingNextWave
    /\ game.preparationTimer > 0
    /\ game.gameOver
    /\ ticks = MaxTicks

\* callbacks with a listener under the event type
ListeningTo(es, eventType) ==
    {c \in 1 .. Len(es.callbacks) :
        es.callbacks[c].eventType = eventType /\ Listening(es, c)}

\* C38: emit(type) invokes every listener that was registered for the type
\* when emit was called exactly once, also when a listener registered with
\* once unsubscribes itself during that emit, and invokes no other
\* callback (here for emits none of whose listeners emits in turn).
EmitInvokesEveryListenerOnce ==
    [][\A eventType \in EventTypes :
          (/\ Emitted(eventType)
           /\ \A c \in ListeningTo(GameEvents, eventType) :
                  GameEvents.callbacks[c].does # "emit")
              => \A c \in 1 .. Len(GameEvents.callbacks) :
                     GameEvents'.callbacks[c].invoked
                         = GameEvents.callbacks[c].invoked
                               + (IF c \in ListeningTo(GameEvents, eventType) THEN 1 ELSE 0)]_vars

\* C39: after any sequence of selectMinion, deselectMinion and canvas
\* clicks Game.selectedMinionType agrees with
\* InputHandler.uiState.selectedMinion; after a deselection or a
\* successful placement the game holds no selected type and
\* Game.placeMinionAt is rejected until a type is selected again.
SelectionAgreesWithTheInputHandler ==
    /\ game.selectedMinionType = game.inputHandler.uiState.selectedMinion
    /\ game.inputHandler.uiState.selectedMinion = Null
           => \A laneIndex \in LaneIndices, tileIndex \in TileIndices :
                  ~PlaceMinionAt(Cx(<<>>), laneIndex, tileIndex).ret

====
